---- MODULE Spec2Model ----
(***************************************************************************)
(* Model of the atlas backtesting pipeline:                                *)
(*   Backtester::run            crates/backtester/src/lib.rs               *)
(*   SimpleRiskManager::evaluate crates/risk/src/simple_manager.rs         *)
(*   SimulatedExecutor::execute crates/execution/src/simulated.rs          *)
(*   AnalyticsEngine::calculate crates/analytics/src/engine.rs             *)
(*   run_optimization, run_single_backtest_and_save and                    *)
(*   generate_generic_parameter_sets  app/src/optimizer.rs                 *)
(*   Db::save_backtest_report / save_trades / save_equity_curve            *)
(*                              crates/database/src/lib.rs                 *)
(*                                                                         *)
(* rust_decimal::Decimal values are fixed-point integers in units of       *)
(* 1/SCALE.  f64 settings (percentages, confidence) are carried in the     *)
(* same unit, as Decimal::from_f64 converts them before use.               *)
(* Option<T> is a sequence of length 0 (None) or 1 (Some).                 *)
(* The Executor trait executes "against the provided portfolio"            *)
(* (execution/src/lib.rs:23), so the portfolio the executor mutates is the *)
(* one Backtester::run reads.                                              *)
(***************************************************************************)
EXTENDS Integers, Sequences, FiniteSets, TLC

\* ------------------------------------------------------------------ bounds
MaxBars == 3                 \* bars processed after the warm-up window
MaxBarsLong == 4             \* bars processed in the long-horizon runs
MaxSets == 3                 \* parameter sets of one optimization job
MaxParams == 2               \* parameters of one optimization grid
MaxReports == 3              \* rows of the performance_reports table
MaxLiveOps == 3              \* operations on the shared live portfolio
MaxCalls == 3                \* assess calls on one strategy instance
MaxPRCalls == 4              \* assess calls on one ProbReversion instance
MaxDrivenBars == 4           \* bars of a run that drives MACrossover
MaxJobs == 2                 \* run_optimization calls in one process
MaxVals == 7                 \* values of one range the model follows
MaxPoints == 3               \* equity points handed to AnalyticsEngine::calculate

\* --------------------------------------------------------------- constants
KLINE_HISTORY_SIZE == 100
MIN_KLINES == 100             \* bars an optimization worker needs
MINIMUM_TRADES_THRESHOLD == 30
JobId == 1                    \* id returned by create_optimization_job
SCALE == 100
F64_INFINITY == 1000000 * SCALE   \* stands for f64::INFINITY
UNIT == 10                    \* optimizer numbers are carried in tenths

InitialCapital == 10000 * SCALE          \* dec!(10_000)

Symbols     == {"BTCUSDT", "ETHUSDT"}
Sides       == {"Long", "Short"}
Prices      == {90 * SCALE, 100 * SCALE}
Confidences == {0, SCALE}                \* 0.0 and 1.0
RiskPercents    == {1, SCALE}            \* risk_per_trade_percent 0.01, 1.0
StopPercents    == {5}                   \* stop_loss_percent 0.05
MinConfidences  == {0, 50}               \* minimum_confidence_threshold
Leverages       == {2}
TakerFees       == {0, 1}                \* taker_fee 0.0, 0.01
Slippages       == {0, 1}                \* slippage_percent 0.0, 0.01

\* ------------------------------------------------------ Decimal arithmetic
Abs(x) == IF x < 0 THEN -x ELSE x
Sgn(x) == IF x < 0 THEN -1 ELSE 1

\* Decimal * Decimal, rounded toward zero at 1/SCALE
DMul(a, b) ==
    LET p == Abs(a)
        q == Abs(b)
    IN  (Sgn(a) * Sgn(b)) * ((p \div SCALE) * q + ((p % SCALE) * q) \div SCALE)

\* Decimal / Decimal (b # 0), rounded toward zero at 1/SCALE
DDiv(a, b) ==
    LET p == Abs(a)
        q == Abs(b)
    IN  (Sgn(a) * Sgn(b)) * ((p \div q) * SCALE + ((p % q) * SCALE) \div q)

DecOne  == SCALE
DecZero == 0

None    == << >>
Some(x) == << x >>
IsSome(o) == Len(o) = 1
IsNone(o) == Len(o) = 0
Unwrap(o) == o[1]

\* -------------------------------------------------------------- core types
Opposite(side) == IF side = "Long" THEN "Short" ELSE "Long"

Hold         == [kind |-> "Hold",    confidence |-> 0]
Close        == [kind |-> "Close",   confidence |-> 0]
GoLong(c)    == [kind |-> "GoLong",  confidence |-> c]
GoShort(c)   == [kind |-> "GoShort", confidence |-> c]
Signals      == {Hold, Close} \cup {GoLong(c) : c \in Confidences}
                              \cup {GoShort(c) : c \in Confidences}

\* Kline: the fields read by the pipeline
Kline(t, lo, hi, cl) == [open_time |-> t, low |-> lo, high |-> hi, close |-> cl]

\* bar shapes fed to the run: low <= close = high
BarShapes == {s \in [low : Prices, high : Prices, close : Prices] :
                 s.low <= s.close /\ s.close = s.high}

\* Bars are delivered in strict ascending open_time order
OpenTime(idx) == idx * 60

\* --------------------------------------------------------------- Portfolio
\* Portfolio::new
NewPortfolio(initial_capital) ==
    [initial_capital |-> initial_capital,
     cash            |-> initial_capital,
     open_positions  |-> [s \in {} |-> 0]]

\* HashMap::get(&symbol).cloned()
GetPosition(pf, sym) ==
    IF sym \in DOMAIN pf.open_positions THEN Some(pf.open_positions[sym]) ELSE None

MapInsert(m, k, v) == [s \in (DOMAIN m) \cup {k} |-> IF s = k THEN v ELSE m[s]]
MapRemove(m, k)    == [s \in (DOMAIN m) \ {k} |-> m[s]]

\* ------------------------------------------------------------ risk manager
OrderRequest(sym, side, qty, lev, sl, sig) ==
    [symbol |-> sym, side |-> side, quantity |-> qty, leverage |-> lev,
     sl_price |-> sl, originating_signal |-> sig]

OkSome(o) == [tag |-> "Order",  order |-> Some(o)]
OkNone    == [tag |-> "None",   order |-> None]
Vetoed    == [tag |-> "Vetoed", order |-> None]

\* Order built from a Close signal for an open position
CloseOrderFor(pos, sig) ==
    OrderRequest(pos.symbol, Opposite(pos.side), pos.quantity, pos.leverage,
                 DecZero, sig)

\* variant: the amount to risk is not scaled by the signal's confidence
EntryOrderForUnscaled(signal, portfolio_value, current_kline, settings) ==
    LET signal_side == IF signal.kind = "GoLong" THEN "Long" ELSE "Short"
        entry_price == current_kline.close
        sl_price    == IF signal_side = "Long"
                       THEN DMul(entry_price, DecOne - settings.stop_loss_percent)
                       ELSE DMul(entry_price, DecOne + settings.stop_loss_percent)
        amount_to_risk        == DMul(portfolio_value, settings.risk_per_trade_percent)
        position_size_quote   == DDiv(amount_to_risk, settings.stop_loss_percent)
        quantity_base         == DDiv(position_size_quote, entry_price)
    IN  OrderRequest("BTCUSDT", signal_side, quantity_base, settings.leverage,
                     sl_price, signal)

\* Position sizing of an approved entry signal
EntryOrderFor(signal, portfolio_value, current_kline, settings) ==
    LET signal_side == IF signal.kind = "GoLong" THEN "Long" ELSE "Short"
        entry_price == current_kline.close
        sl_price    == IF signal_side = "Long"
                       THEN DMul(entry_price, DecOne - settings.stop_loss_percent)
                       ELSE DMul(entry_price, DecOne + settings.stop_loss_percent)
        amount_to_risk        == DMul(portfolio_value, settings.risk_per_trade_percent)
        scaled_amount_to_risk == DMul(amount_to_risk, signal.confidence)
        position_size_quote   == DDiv(scaled_amount_to_risk, settings.stop_loss_percent)
        quantity_base         == DDiv(position_size_quote, entry_price)
    IN  OrderRequest("BTCUSDT", signal_side, quantity_base, settings.leverage,
                     sl_price, signal)

\* variant: no veto for an already open position
EvaluateNoOpenVeto(signal, sym, portfolio_value, current_kline, open_position, settings) ==
    IF signal.kind = "Hold" THEN OkNone
    ELSE IF signal.kind = "Close" THEN
        IF IsSome(open_position)
        THEN OkSome(CloseOrderFor(Unwrap(open_position), signal))
        ELSE OkNone
    ELSE IF signal.confidence < settings.minimum_confidence_threshold THEN Vetoed
    ELSE OkSome(EntryOrderFor(signal, portfolio_value, current_kline, settings))

\* SimpleRiskManager::evaluate
Evaluate(signal, sym, portfolio_value, current_kline, open_position, settings) ==
    IF signal.kind = "Hold" THEN OkNone
    ELSE IF signal.kind = "Close" THEN
        IF IsSome(open_position)
        THEN OkSome(CloseOrderFor(Unwrap(open_position), signal))
        ELSE OkNone
    ELSE IF IsSome(open_position) THEN Vetoed
    ELSE IF signal.confidence < settings.minimum_confidence_threshold THEN Vetoed
    ELSE OkSome(EntryOrderFor(signal, portfolio_value, current_kline, settings))

\* ---------------------------------------------------------------- executor
Execution(sym, side, price, qty, fee, req) ==
    [symbol |-> sym, side |-> side, price |-> price, quantity |-> qty,
     fee |-> fee, source_request |-> req]

Position(sym, side, qty, entry_price, lev, sl, t) ==
    [symbol |-> sym, side |-> side, quantity |-> qty, entry_price |-> entry_price,
     leverage |-> lev, sl_price |-> sl, entry_time |-> t]

\* variant: a rejected order still costs the smallest unit of cash
ExecErrCharged(pf) ==
    [ok |-> FALSE, kind |-> "error", execution |-> None, closed |-> None,
     portfolio |-> [pf EXCEPT !.cash = pf.cash - 1]]

\* Err(..) of process_entry / process_close: the portfolio is not touched
ExecErr(pf) ==
    [ok |-> FALSE, kind |-> "error", execution |-> None, closed |-> None,
     portfolio |-> pf]

\* variant: no cash check before the entry is booked
ProcessEntryNoCashCheck(pf, order, current_price, current_time, sim) ==
    LET slippage_factor == sim.slippage_percent
        execution_price == IF order.side = "Long"
                           THEN DMul(current_price, DecOne + slippage_factor)
                           ELSE DMul(current_price, DecOne - slippage_factor)
        position_value  == DMul(order.quantity, execution_price)
        fee             == DMul(position_value, sim.taker_fee)
        new_position    == Position(order.symbol, order.side, order.quantity,
                                    execution_price, order.leverage,
                                    order.sl_price, current_time)
    IN  [ok |-> TRUE, kind |-> "entry",
         execution |-> Some(Execution(order.symbol, order.side,
                                      execution_price, order.quantity,
                                      fee, order)),
         closed    |-> None,
         portfolio |-> [pf EXCEPT
             !.cash = pf.cash - fee,
             !.open_positions =
                 MapInsert(pf.open_positions, order.symbol, new_position)]]

\* SimulatedExecutor::process_entry
ProcessEntry(pf, order, current_price, current_time, sim) ==
    LET slippage_factor == sim.slippage_percent
        execution_price == IF order.side = "Long"
                           THEN DMul(current_price, DecOne + slippage_factor)
                           ELSE DMul(current_price, DecOne - slippage_factor)
        position_value  == DMul(order.quantity, execution_price)
        fee             == DMul(position_value, sim.taker_fee)
        new_position    == Position(order.symbol, order.side, order.quantity,
                                    execution_price, order.leverage,
                                    order.sl_price, current_time)
    IN  IF pf.cash < fee THEN ExecErr(pf)
        ELSE [ok |-> TRUE, kind |-> "entry",
              execution |-> Some(Execution(order.symbol, order.side,
                                           execution_price, order.quantity,
                                           fee, order)),
              closed    |-> None,
              portfolio |-> [pf EXCEPT
                  !.cash = pf.cash - fee,
                  !.open_positions =
                      MapInsert(pf.open_positions, order.symbol, new_position)]]

\* variant: the position is read but left in the map
RemovePositionKeep(open_positions, sym) == open_positions

\* HashMap::remove in process_close
RemovePosition(open_positions, sym) == MapRemove(open_positions, sym)

\* variant: the fee of the closing fill is not taken from cash
ProcessCloseNoFee(pf, order, current_price, sim) ==
    IF order.symbol \notin DOMAIN pf.open_positions THEN ExecErr(pf)
    ELSE
    LET open_position   == pf.open_positions[order.symbol]
        slippage_factor == sim.slippage_percent
        execution_price == IF open_position.side = "Long"
                           THEN DMul(current_price, DecOne - slippage_factor)
                           ELSE DMul(current_price, DecOne + slippage_factor)
        pnl == DMul(execution_price - open_position.entry_price,
                    open_position.quantity)
               * (IF open_position.side = "Long" THEN 1 ELSE -1)
        position_value == DMul(open_position.quantity, execution_price)
        fee            == DMul(position_value, sim.taker_fee)
    IN  [ok |-> TRUE, kind |-> "close",
         execution |-> Some(Execution(order.symbol, order.side, execution_price,
                                      open_position.quantity, fee, order)),
         closed    |-> Some(open_position),
         portfolio |-> [pf EXCEPT
             !.cash = pf.cash + pnl,
             !.open_positions = RemovePosition(pf.open_positions, order.symbol)]]

\* SimulatedExecutor::process_close
ProcessClose(pf, order, current_price, sim) ==
    IF order.symbol \notin DOMAIN pf.open_positions THEN ExecErr(pf)
    ELSE
    LET open_position   == pf.open_positions[order.symbol]
        slippage_factor == sim.slippage_percent
        execution_price == IF open_position.side = "Long"
                           THEN DMul(current_price, DecOne - slippage_factor)
                           ELSE DMul(current_price, DecOne + slippage_factor)
        pnl == DMul(execution_price - open_position.entry_price,
                    open_position.quantity)
               * (IF open_position.side = "Long" THEN 1 ELSE -1)
        position_value == DMul(open_position.quantity, execution_price)
        fee            == DMul(position_value, sim.taker_fee)
        net_pnl        == pnl - fee
    IN  [ok |-> TRUE, kind |-> "close",
         execution |-> Some(Execution(order.symbol, order.side, execution_price,
                                      open_position.quantity, fee, order)),
         closed    |-> Some(open_position),
         portfolio |-> [pf EXCEPT
             !.cash = pf.cash + net_pnl,
             !.open_positions = RemovePosition(pf.open_positions, order.symbol)]]

\* variant: every order is processed as an entry
IsEntryAlways(pf, order) == TRUE

\* SimulatedExecutor::execute
IsEntry(pf, order) == order.symbol \notin DOMAIN pf.open_positions

Execute(pf, order, current_price, current_time, sim) ==
    IF IsEntry(pf, order)
    THEN ProcessEntry(pf, order, current_price, current_time, sim)
    ELSE ProcessClose(pf, order, current_price, sim)

\* ---------------------------------------------------------------- analytics
RECURSIVE SumPnl(_)
SumPnl(ts) == IF ts = << >> THEN 0 ELSE ts[1].pnl + SumPnl(Tail(ts))

RECURSIVE SumFees(_)
SumFees(ts) == IF ts = << >> THEN 0 ELSE ts[1].fees + SumFees(Tail(ts))

Max(a, b) == IF a >= b THEN a ELSE b

\* the max-drawdown fold of AnalyticsEngine::calculate
RECURSIVE DrawdownFold(_, _, _)
DrawdownFold(points, peak_equity, max_drawdown) ==
    IF points = << >> THEN max_drawdown
    ELSE LET peak == Max(peak_equity, points[1].value)
         IN  DrawdownFold(Tail(points), peak, Max(max_drawdown, peak - points[1].value))

\* PerformanceReport::new (Default)
ZeroReport ==
    [total_trades |-> 0, net_pnl_absolute |-> 0, max_drawdown_absolute |-> 0]

\* AnalyticsEngine::calculate (trade count, net P&L, absolute drawdown)
Calculate(initial_capital, trades, equity_curve) ==
    IF trades = << >> THEN ZeroReport
    ELSE [total_trades          |-> Len(trades),
          net_pnl_absolute      |-> SumPnl(trades),
          max_drawdown_absolute |-> DrawdownFold(equity_curve, initial_capital, 0)]

\* ------------------------------------------------------------------ logger
EquityPoint(t, v) == [timestamp |-> t, value |-> v]

\* BacktestLogger::new
NewLogger(initial_equity) ==
    [trades |-> << >>, equity_points |-> << >>, initial_equity |-> initial_equity]

\* BacktestLogger::record_equity
RecordEquity(lg, timestamp, equity) ==
    [lg EXCEPT !.equity_points = Append(@, EquityPoint(timestamp, equity))]

\* BacktestLogger::current_equity
CurrentEquity(lg) == lg.initial_equity

\* variant: the trade is put at the front of the list
RecordTradeFront(lg, trade, timestamp) ==
    RecordEquity([lg EXCEPT !.trades = << trade >> \o @], timestamp, CurrentEquity(lg))

\* BacktestLogger::record_trade
RecordTrade(lg, trade, timestamp) ==
    RecordEquity([lg EXCEPT !.trades = Append(@, trade)], timestamp, CurrentEquity(lg))

\* The Trade literal built in Backtester::run after a closing fill
TradeOf(closed_pos, execution, exit_time) ==
    [symbol      |-> closed_pos.symbol,
     side        |-> execution.side,
     entry_time  |-> closed_pos.entry_time,
     exit_time   |-> exit_time,
     entry_price |-> closed_pos.entry_price,
     exit_price  |-> execution.price,
     quantity    |-> execution.quantity,
     pnl         |-> DecZero,
     fees        |-> execution.fee,
     signal_confidence |-> 0,
     leverage    |-> closed_pos.leverage]

\* -------------------------------------------------------- Backtester::run
VARIABLES
    symbol,          \* Backtester.symbol
    risk_settings,   \* SimpleRiskManager.settings
    sim_settings,    \* SimulatedExecutor.settings
    klines_len,      \* klines.len()
    i,               \* loop index of run
    prev_kline,      \* klines[i - 1]
    portfolio,       \* Backtester.portfolio
    logger,          \* Backtester.logger
    report,          \* Option: the report returned by run
    bar_log,         \* Option: what the last loop iteration did
    eval_call,       \* Option: arguments and result of a direct evaluate call
    pc,              \* "loop" while iterating, "done" after run returned
    \* run_optimization and its workers (app/src/optimizer.rs)
    opt_cores,       \* app_settings.optimizer_cores
    param_sets,      \* the parameter sets of the job
    opt_bars,        \* number of klines in the job's date range
    opt_pc,          \* position of handle_optimize / run_optimization
    worker,          \* per parameter set: position and locals of the closure
    completed_runs,  \* *completed_runs_mutex
    db,              \* backtest_runs, performance_reports, trades, equity_curves
    ranker_view,     \* Option: the rows get_reports_for_job returned
    global_pool,     \* Option: thread count of rayon's global pool once built
    jobs_started,    \* run_optimization calls made by this process
    \* generate_generic_parameter_sets (app/src/optimizer.rs)
    params_table,    \* the strategy's parameter table of optimizer.toml
    value_lists,     \* expanded values per parameter
    indices,         \* the odometer
    final_tables,    \* combinations emitted so far
    grid_pc,         \* "expand", "loop", "done" or "panic"
    \* analyze_and_rank_results (app/src/analyzer.rs)
    report_rows,     \* performance_reports joined with backtest_runs, in query order
    ranked_reports,  \* Option: the Vec<RankedReport> returned
    rank_pc,         \* "start" or "done"
    \* Strategy::assess (crates/strategies)
    strat_settings,  \* the strategy's settings
    strat_state,     \* the strategy's mutable fields
    klines,          \* the slice handed to the next assess call (in the driven
                     \* run: every bar before the current one)
    assess_log,      \* Option: slice, state before and signal of the last call,
                     \* and whether a stop was hit since
    calls,           \* assess calls made so far
    position_held    \* a position for the symbol is open in the portfolio

process_vars == << global_pool, jobs_started >>
opt_vars  == << opt_cores, param_sets, opt_bars, opt_pc, worker, completed_runs,
                db, ranker_view, process_vars >>
grid_vars == << params_table, value_lists, indices, final_tables, grid_pc >>

rank_vars == << report_rows, ranked_reports, rank_pc >>

strat_vars == << strat_settings, strat_state, klines, assess_log, calls,
                 position_held >>

vars == << symbol, risk_settings, sim_settings, klines_len, i, prev_kline,
           portfolio, logger, report, bar_log, eval_call, pc, opt_vars, grid_vars,
           rank_vars, strat_vars >>

\* everything Backtester::run and evaluate leave alone
settings_vars == << symbol, risk_settings, sim_settings, klines_len,
                    opt_vars, grid_vars, rank_vars, strat_vars >>

\* the variables of Backtester::run
bt_vars == << symbol, risk_settings, sim_settings, klines_len, i, prev_kline,
              portfolio, logger, report, bar_log, eval_call, pc >>

\* everything outside the optimizer, the grid expansion, the ranker
opt_frame  == << bt_vars, grid_vars, rank_vars, strat_vars >>
grid_frame == << bt_vars, opt_vars, rank_vars, strat_vars >>
rank_frame == << bt_vars, opt_vars, grid_vars, strat_vars >>
strat_frame == << bt_vars, opt_vars, grid_vars, rank_vars >>

EmptyDb == [runs |-> {}, reports |-> {}, trades |-> {}, equity |-> {}]

\* no optimization job is running
OptIdle ==
    /\ opt_cores = 1
    /\ param_sets = << >>
    /\ opt_bars = 0
    /\ opt_pc = "idle"
    /\ worker = << >>
    /\ completed_runs = 0
    /\ db = EmptyDb
    /\ ranker_view = None
    /\ global_pool = None
    /\ jobs_started = 0

\* no grid is being expanded
GridIdle ==
    /\ params_table = << >>
    /\ value_lists = << >>
    /\ indices = << >>
    /\ final_tables = << >>
    /\ grid_pc = "idle"

\* no ranking is being computed
RankIdle ==
    /\ report_rows = << >>
    /\ ranked_reports = None
    /\ rank_pc = "idle"

\* no strategy is being assessed on its own
StratIdle ==
    /\ strat_settings = << >>
    /\ strat_state = << >>
    /\ klines = << >>
    /\ assess_log = None
    /\ calls = 0
    /\ position_held = FALSE

\* no backtest is running in this process
BtIdle ==
    /\ symbol = "BTCUSDT"
    /\ risk_settings = [risk_per_trade_percent |-> 1, stop_loss_percent |-> 5,
                        minimum_confidence_threshold |-> 0, leverage |-> 2]
    /\ sim_settings = [taker_fee |-> 0, slippage_percent |-> 0]
    /\ klines_len = 0
    /\ i = KLINE_HISTORY_SIZE
    /\ prev_kline = Kline(OpenTime(KLINE_HISTORY_SIZE - 1),
                          100 * SCALE, 100 * SCALE, 100 * SCALE)
    /\ portfolio = NewPortfolio(InitialCapital)
    /\ logger = NewLogger(InitialCapital)
    /\ report = None
    /\ bar_log = None
    /\ eval_call = None
    /\ pc = "idle"

LenChoices == {0, KLINE_HISTORY_SIZE - 1, KLINE_HISTORY_SIZE,
               KLINE_HISTORY_SIZE + 1, KLINE_HISTORY_SIZE + MaxBars}

Init ==
    /\ symbol \in Symbols
    /\ risk_settings \in [risk_per_trade_percent : RiskPercents,
                          stop_loss_percent : StopPercents,
                          minimum_confidence_threshold : MinConfidences,
                          leverage : Leverages]
    /\ sim_settings \in [taker_fee : TakerFees, slippage_percent : Slippages]
    /\ klines_len \in LenChoices
    /\ i = KLINE_HISTORY_SIZE
    /\ \E c \in Prices : prev_kline = Kline(OpenTime(KLINE_HISTORY_SIZE - 1), c, c, c)
    /\ portfolio = NewPortfolio(InitialCapital)
    /\ logger = NewLogger(InitialCapital)
    /\ report = None
    /\ bar_log = None
    /\ OptIdle /\ GridIdle /\ RankIdle /\ StratIdle
    /\ eval_call = None
    /\ pc = "loop"

\* variant: inclusive upper bound
LoopCondInclusive(idx, len) == idx <= len

\* for i in KLINE_HISTORY_SIZE..klines.len()
LoopCond(idx, len) == idx < len

\* variant: the stop is compared with the bar's close
StopTriggeredOnClose(open_position, current_kline) ==
    IF open_position.side = "Long"
    THEN current_kline.close <= open_position.sl_price
    ELSE current_kline.close >= open_position.sl_price

\* stop_triggered
StopTriggered(open_position, current_kline) ==
    IF open_position.side = "Long"
    THEN current_kline.low <= open_position.sl_price
    ELSE current_kline.high >= open_position.sl_price

\* the stop-loss branch is taken (ends in `continue`)
StopFires(pf, sym, current_kline) ==
    LET position_to_check == GetPosition(pf, sym)
    IN  /\ IsSome(position_to_check)
        /\ StopTriggered(Unwrap(position_to_check), current_kline)

\* variant: the stop-loss branch does not end the iteration
ReachesAssessAlways(pf, sym, current_kline) == TRUE

\* control reaches strategy.assess
ReachesAssess(pf, sym, current_kline) == ~StopFires(pf, sym, current_kline)

\* variant: the current bar is the price reference
CalculationKlineCurrent(prev, current) == current

\* calculation_kline = &klines[i - 1]
CalculationKline(prev, current) == prev

ExecLog(order, price, time, res) ==
    [order |-> order, current_price |-> price, current_time |-> time,
     ok |-> res.ok, kind |-> res.kind, execution |-> res.execution,
     closed |-> res.closed]

BarLog(idx, current, prev, pf, stop, assessed, signal, evaluated, eval_res, execs) ==
    Some([index |-> idx, kline |-> current, prev |-> prev,
          position_to_check |-> GetPosition(pf, symbol),
          portfolio_before |-> pf,
          stop_triggered |-> stop,
          assess_called |-> assessed, signal |-> signal,
          evaluate_called |-> evaluated, evaluate_result |-> eval_res,
          executes |-> execs])

\* logger after a fill: a Trade is recorded only for Ok((execution, Some(closed_pos)))
LogFill(lg, res, exit_time) ==
    IF res.ok /\ IsSome(res.closed)
    THEN RecordTrade(lg, TradeOf(Unwrap(res.closed), Unwrap(res.execution), exit_time),
                     exit_time)
    ELSE lg

\* loop body, stop-loss branch
StopLossBar ==
    /\ pc = "loop" /\ LoopCond(i, klines_len)
    /\ \E shape \in BarShapes :
        LET current_kline == Kline(OpenTime(i), shape.low, shape.high, shape.close)
            lg1           == RecordEquity(logger, current_kline.open_time, portfolio.cash)
        IN  /\ StopFires(portfolio, symbol, current_kline)
            /\ LET open_position == Unwrap(GetPosition(portfolio, symbol))
                   close_order   == OrderRequest(open_position.symbol,
                                        Opposite(open_position.side),
                                        open_position.quantity,
                                        open_position.leverage, DecZero, Close)
                   res == Execute(portfolio, close_order, open_position.sl_price,
                                  current_kline.open_time, sim_settings)
               IN  /\ portfolio' = res.portfolio
                   /\ logger' = LogFill(lg1, res, current_kline.open_time)
                   /\ bar_log' = BarLog(i, current_kline, prev_kline, portfolio,
                                        TRUE, FALSE, None, FALSE, None,
                                        << ExecLog(close_order, open_position.sl_price,
                                                   current_kline.open_time, res) >>)
            /\ prev_kline' = current_kline
    /\ i' = i + 1
    /\ UNCHANGED << settings_vars, eval_call, report, pc >>

\* loop body, strategy returned Hold
HoldBar ==
    /\ pc = "loop" /\ LoopCond(i, klines_len)
    /\ \E shape \in BarShapes :
        LET current_kline == Kline(OpenTime(i), shape.low, shape.high, shape.close)
        IN  /\ ReachesAssess(portfolio, symbol, current_kline)
            /\ logger' = RecordEquity(logger, current_kline.open_time, portfolio.cash)
            /\ bar_log' = BarLog(i, current_kline, prev_kline, portfolio,
                                 FALSE, TRUE, Some(Hold), FALSE, None, << >>)
            /\ prev_kline' = current_kline
    /\ i' = i + 1
    /\ UNCHANGED << settings_vars, eval_call, portfolio, report, pc >>

\* loop body, risk manager returned Ok(None) or Err(Vetoed)
NoOrderBar ==
    /\ pc = "loop" /\ LoopCond(i, klines_len)
    /\ \E shape \in BarShapes, signal \in Signals \ {Hold} :
        LET current_kline == Kline(OpenTime(i), shape.low, shape.high, shape.close)
            calculation_kline == CalculationKline(prev_kline, current_kline)
            order_request_result ==
                Evaluate(signal, symbol, portfolio.cash, calculation_kline,
                         GetPosition(portfolio, symbol), risk_settings)
        IN  /\ ReachesAssess(portfolio, symbol, current_kline)
            /\ order_request_result.tag # "Order"
            /\ logger' = RecordEquity(logger, current_kline.open_time, portfolio.cash)
            /\ bar_log' = BarLog(i, current_kline, prev_kline, portfolio,
                                 FALSE, TRUE, Some(signal), TRUE,
                                 Some(order_request_result), << >>)
            /\ prev_kline' = current_kline
    /\ i' = i + 1
    /\ UNCHANGED << settings_vars, eval_call, portfolio, report, pc >>

\* loop body, risk manager returned Ok(Some(order_request)) and it is executed
ExecuteBar ==
    /\ pc = "loop" /\ LoopCond(i, klines_len)
    /\ \E shape \in BarShapes, signal \in Signals \ {Hold} :
        LET current_kline == Kline(OpenTime(i), shape.low, shape.high, shape.close)
            lg1           == RecordEquity(logger, current_kline.open_time, portfolio.cash)
            calculation_kline == CalculationKline(prev_kline, current_kline)
            order_request_result ==
                Evaluate(signal, symbol, portfolio.cash, calculation_kline,
                         GetPosition(portfolio, symbol), risk_settings)
        IN  /\ ReachesAssess(portfolio, symbol, current_kline)
            /\ order_request_result.tag = "Order"
            /\ LET order_request == Unwrap(order_request_result.order)
                   res == Execute(portfolio, order_request, calculation_kline.close,
                                  calculation_kline.open_time, sim_settings)
               IN  /\ portfolio' = res.portfolio
                   /\ logger' = LogFill(lg1, res, calculation_kline.open_time)
                   /\ bar_log' = BarLog(i, current_kline, prev_kline, portfolio,
                                        FALSE, TRUE, Some(signal), TRUE,
                                        Some(order_request_result),
                                        << ExecLog(order_request, calculation_kline.close,
                                                   calculation_kline.open_time, res) >>)
            /\ prev_kline' = current_kline
    /\ i' = i + 1
    /\ UNCHANGED << settings_vars, eval_call, report, pc >>

\* loop exhausted: analytics and return
Finish ==
    /\ pc = "loop" /\ ~LoopCond(i, klines_len)
    /\ report' = Some(Calculate(portfolio.initial_capital, logger.trades,
                                logger.equity_points))
    /\ pc' = "done"
    /\ UNCHANGED << settings_vars, eval_call, i, prev_kline, portfolio, logger,
                    bar_log >>

Next == StopLossBar \/ HoldBar \/ NoOrderBar \/ ExecuteBar \/ Finish

Spec == Init /\ [][Next]_vars

\* ---------------------------------------- Backtester::run over a longer input
\* one risk configuration, MaxBarsLong bars after the warm-up window
InitLong ==
    /\ symbol \in Symbols
    /\ risk_settings = [risk_per_trade_percent |-> 1, stop_loss_percent |-> 5,
                        minimum_confidence_threshold |-> 0, leverage |-> 2]
    /\ sim_settings \in [taker_fee : TakerFees, slippage_percent : {0}]
    /\ klines_len = KLINE_HISTORY_SIZE + MaxBarsLong
    /\ i = KLINE_HISTORY_SIZE
    /\ prev_kline = Kline(OpenTime(KLINE_HISTORY_SIZE - 1),
                          100 * SCALE, 100 * SCALE, 100 * SCALE)
    /\ portfolio = NewPortfolio(InitialCapital)
    /\ logger = NewLogger(InitialCapital)
    /\ report = None
    /\ bar_log = None
    /\ OptIdle /\ GridIdle /\ RankIdle /\ StratIdle
    /\ eval_call = None
    /\ pc = "loop"

SpecLong == InitLong /\ [][Next]_vars

\* ------------------------------------- SimpleRiskManager::evaluate called alone
EvalPositions ==
    {Position(sym, side, 20 * SCALE, 100 * SCALE, 3, 95 * SCALE, OpenTime(KLINE_HISTORY_SIZE))
        : sym \in Symbols, side \in Sides}

EvalPortfolios ==
    {[initial_capital |-> InitialCapital, cash |-> c, open_positions |-> m] :
        c \in {0 - 100 * SCALE, 0, InitialCapital},
        m \in {[s \in {} |-> 0]} \cup
              {[s \in {p.symbol} |-> p] : p \in EvalPositions}}

InitEvaluate ==
    /\ symbol \in Symbols
    /\ risk_settings \in [risk_per_trade_percent : RiskPercents,
                          stop_loss_percent : StopPercents,
                          minimum_confidence_threshold : MinConfidences,
                          leverage : Leverages]
    /\ sim_settings = [taker_fee |-> 0, slippage_percent |-> 0]
    /\ klines_len = 0
    /\ i = KLINE_HISTORY_SIZE
    /\ \E c \in Prices : prev_kline = Kline(OpenTime(KLINE_HISTORY_SIZE - 1), c, c, c)
    /\ portfolio \in EvalPortfolios
    /\ logger = NewLogger(InitialCapital)
    /\ report = None
    /\ bar_log = None
    /\ OptIdle /\ GridIdle /\ RankIdle /\ StratIdle
    /\ eval_call = None
    /\ pc = "evaluate"

\* risk_manager.evaluate(&signal, &symbol, portfolio.cash, kline, open_positions.get(&symbol))
EvaluateCall ==
    /\ pc = "evaluate"
    /\ \E signal \in Signals :
        eval_call' = Some([signal |-> signal,
                           portfolio_value |-> portfolio.cash,
                           current_kline |-> prev_kline,
                           open_position |-> GetPosition(portfolio, symbol),
                           portfolio_before |-> portfolio,
                           result |-> Evaluate(signal, symbol, portfolio.cash, prev_kline,
                                               GetPosition(portfolio, symbol),
                                               risk_settings)])
    /\ UNCHANGED << settings_vars, i, prev_kline, portfolio, logger, report,
                    bar_log, pc >>

NextEvaluate == EvaluateCall

SpecEvaluate == InitEvaluate /\ [][NextEvaluate]_vars

\* ------------------------------------------ run_optimization and its workers
\* MACrossoverSettings drawn by the grid: accepted and rejected by the constructor
ParamValues ==
    {[m5_fast_period |-> f, m5_slow_period |-> 2,
      h1_fast_period |-> 1, h1_slow_period |-> 2] : f \in {1, 2}}

\* MACrossover::new accepts the settings (it panics otherwise)
ConstructorAccepts(settings) ==
    ~(\/ settings.m5_fast_period >= settings.m5_slow_period
      \/ settings.h1_fast_period >= settings.h1_slow_period)

BarCounts  == {MIN_KLINES - 1, MIN_KLINES, MIN_KLINES + 2}
CoreCounts == {1, 2}

\* variant: the bar count is never too small
TooFewBarsNever(n) == FALSE

\* klines.len() < 100
TooFewBars(n) == n < MIN_KLINES

\* (trades, equity_curve) lengths Backtester::run can return for n bars: one
\* equity point per processed bar and one more per recorded trade
BacktestResults(n) ==
    IF n <= KLINE_HISTORY_SIZE
    THEN {[n_trades |-> 0, n_equity |-> 0]}
    ELSE {[n_trades |-> t, n_equity |-> (n - KLINE_HISTORY_SIZE) + t] :
              t \in (IF n >= KLINE_HISTORY_SIZE + 2 THEN {0, 1} ELSE {0})}

Workers == 1..Len(param_sets)

NewWorker == [pc |-> "pending", result |-> None, run_id |-> None]

RunningPcs  == {"connected", "built", "ran", "report_saved", "trades_saved"}
TerminalPcs == {"saved", "skipped", "failed", "panicked", "abandoned"}

Running(w, p)  == w[p].pc \in RunningPcs
Terminal(w, p) == w[p].pc \in TerminalPcs
Panicked(w)    == \E p \in DOMAIN w : w[p].pc = "panicked"

InitOpt ==
    /\ BtIdle /\ GridIdle /\ RankIdle /\ StratIdle
    /\ opt_cores \in CoreCounts
    /\ \E n \in 1..MaxSets : param_sets \in [1..n -> ParamValues]
    /\ opt_bars \in BarCounts
    /\ opt_pc = "start"
    /\ worker = [p \in Workers |-> NewWorker]
    /\ completed_runs = 0
    /\ db = EmptyDb
    /\ ranker_view = None
    /\ global_pool = None
    /\ jobs_started = 1

\* the closure of for_each_with ended without unwinding: progress is counted
EndWorker(p, outcome) ==
    /\ worker' = [worker EXCEPT ![p].pc = outcome]
    /\ completed_runs' = completed_runs + 1

\* build_global and load_settings succeeded; par_iter starts
OptStart ==
    /\ opt_pc = "start"
    /\ global_pool = None
    /\ global_pool' = Some(opt_cores)
    /\ opt_pc' = "par_iter"
    /\ UNCHANGED << opt_frame, jobs_started, opt_cores, param_sets, opt_bars, worker,
                    completed_runs, db, ranker_view >>

\* build_global could not start its threads, or load_settings returned Err
OptStartFail ==
    /\ opt_pc = "start"
    /\ global_pool = None
    /\ global_pool' \in {None, Some(opt_cores)}
    /\ opt_pc' = "failed"
    /\ UNCHANGED << opt_frame, jobs_started, opt_cores, param_sets, opt_bars, worker,
                    completed_runs, db, ranker_view >>

\* par_iter halves the slice while the split budget (the pool size, halved at
\* each split) lasts; a piece that is not split further is folded by one
\* thread in slice order.  First index of the piece that holds item p.
RECURSIVE LeafStart(_, _, _, _)
LeafStart(p, lo, hi, splits) ==
    LET len == hi - lo + 1
        mid == lo + (len \div 2)
    IN  IF len \div 2 >= 1 /\ splits > 0
        THEN IF p < mid THEN LeafStart(p, lo, mid - 1, splits \div 2)
                        ELSE LeafStart(p, mid, hi, splits \div 2)
        ELSE lo

\* the items folded before p by the thread that folds p
EarlierInLeaf(p) == LeafStart(p, 1, Len(param_sets), opt_cores)..(p - 1)

\* a pool thread picks a parameter set: database::connect
WConnect(p) ==
    /\ opt_pc = "par_iter"
    /\ worker[p].pc = "pending"
    /\ Cardinality({q \in Workers : Running(worker, q)}) < opt_cores
    /\ \A q \in EarlierInLeaf(p) : worker[q].pc \in {"saved", "skipped", "failed"}
    /\ \E ok \in BOOLEAN :
        IF ok
        THEN /\ worker' = [worker EXCEPT ![p].pc = "connected"]
             /\ UNCHANGED completed_runs
        ELSE EndWorker(p, "failed")
    /\ UNCHANGED << opt_frame, process_vars, opt_cores, param_sets, opt_bars, opt_pc,
                    db, ranker_view >>

\* MACrossover::new(settings.clone())
WBuildStrategy(p) ==
    /\ opt_pc = "par_iter"
    /\ worker[p].pc = "connected"
    /\ worker' = [worker EXCEPT ![p].pc =
                      IF ConstructorAccepts(param_sets[p]) THEN "built"
                      ELSE "panicked"]
    /\ UNCHANGED << opt_frame, process_vars, opt_cores, param_sets, opt_bars, opt_pc,
                    completed_runs, db, ranker_view >>

\* get_klines_by_date_range, the length check and backtester.run
WLoadAndRun(p) ==
    /\ opt_pc = "par_iter"
    /\ worker[p].pc = "built"
    /\ \E ok \in BOOLEAN :
        IF ~ok THEN EndWorker(p, "failed")
        ELSE IF TooFewBars(opt_bars) THEN EndWorker(p, "skipped")
        ELSE /\ \E res \in BacktestResults(opt_bars) :
                    worker' = [worker EXCEPT ![p].pc = "ran",
                                             ![p].result = Some(res)]
             /\ UNCHANGED completed_runs
    /\ UNCHANGED << opt_frame, process_vars, opt_cores, param_sets, opt_bars, opt_pc,
                    db, ranker_view >>

\* Db::save_backtest_report: run row and report in one transaction
WSaveReport(p) ==
    /\ opt_pc = "par_iter"
    /\ worker[p].pc = "ran"
    /\ \E ok \in BOOLEAN :
        IF ok
        THEN LET run_id == Cardinality(db.runs) + 1
             IN  /\ db' = [db EXCEPT
                        !.runs = @ \cup {[run_id |-> run_id, job_id |-> JobId,
                                          parameters |-> param_sets[p]]},
                        !.reports = @ \cup {run_id}]
                 /\ worker' = [worker EXCEPT ![p].pc = "report_saved",
                                             ![p].run_id = Some(run_id)]
                 /\ UNCHANGED completed_runs
        ELSE /\ EndWorker(p, "failed")
             /\ UNCHANGED db
    /\ UNCHANGED << opt_frame, process_vars, opt_cores, param_sets, opt_bars, opt_pc,
                    ranker_view >>

\* Db::save_trades: a transaction of its own; nothing is done for an empty list
WSaveTrades(p) ==
    /\ opt_pc = "par_iter"
    /\ worker[p].pc = "report_saved"
    /\ LET n == Unwrap(worker[p].result).n_trades
       IN  \E ok \in (IF n = 0 THEN {TRUE} ELSE BOOLEAN) :
            IF ok
            THEN /\ db' = [db EXCEPT !.trades =
                               IF n = 0 THEN @
                               ELSE @ \cup {[run_id |-> Unwrap(worker[p].run_id),
                                             count |-> n]}]
                 /\ worker' = [worker EXCEPT ![p].pc = "trades_saved"]
                 /\ UNCHANGED completed_runs
            ELSE /\ EndWorker(p, "failed")
                 /\ UNCHANGED db
    /\ UNCHANGED << opt_frame, process_vars, opt_cores, param_sets, opt_bars, opt_pc,
                    ranker_view >>

\* Db::save_equity_curve: a transaction of its own; nothing is done for an empty list
WSaveEquity(p) ==
    /\ opt_pc = "par_iter"
    /\ worker[p].pc = "trades_saved"
    /\ LET n == Unwrap(worker[p].result).n_equity
       IN  \E ok \in (IF n = 0 THEN {TRUE} ELSE BOOLEAN) :
            IF ok
            THEN /\ db' = [db EXCEPT !.equity =
                               IF n = 0 THEN @
                               ELSE @ \cup {[run_id |-> Unwrap(worker[p].run_id),
                                             count |-> n]}]
                 /\ EndWorker(p, "saved")
            ELSE /\ EndWorker(p, "failed")
                 /\ UNCHANGED db
    /\ UNCHANGED << opt_frame, process_vars, opt_cores, param_sets, opt_bars, opt_pc,
                    ranker_view >>

\* the panic of a closure unwinds the fold of its piece: the items after it
\* in the piece are dropped unrun
WAbandon(p) ==
    /\ opt_pc = "par_iter"
    /\ worker[p].pc = "pending"
    /\ \E q \in EarlierInLeaf(p) : worker[q].pc = "panicked"
    /\ worker' = [worker EXCEPT ![p].pc = "abandoned"]
    /\ UNCHANGED << opt_frame, process_vars, opt_cores, param_sets, opt_bars, opt_pc,
                    completed_runs, db, ranker_view >>

\* variant: for_each_with does not wait for the closures
AllWorkersDoneNoWait(w) == TRUE

\* for_each_with returns when every item's closure has ended
AllWorkersDone(w) == \A p \in DOMAIN w : Terminal(w, p)

\* Ok(job_id)
OptReturn ==
    /\ opt_pc = "par_iter"
    /\ AllWorkersDone(worker)
    /\ ~Panicked(worker)
    /\ opt_pc' = "returned"
    /\ UNCHANGED << opt_frame, process_vars, opt_cores, param_sets, opt_bars, worker,
                    completed_runs, db, ranker_view >>

\* for_each_with resumes the panic of a closure: run_optimization unwinds
OptUnwind ==
    /\ opt_pc = "par_iter"
    /\ AllWorkersDone(worker)
    /\ Panicked(worker)
    /\ opt_pc' = "panicked"
    /\ UNCHANGED << opt_frame, process_vars, opt_cores, param_sets, opt_bars, worker,
                    completed_runs, db, ranker_view >>

\* Db::get_reports_for_job: reports joined with the runs of the job
GetReportsForJob(d, job_id) ==
    {r \in d.runs : r.job_id = job_id /\ r.run_id \in d.reports}

\* analyzer::analyze_and_rank_results in handle_optimize
Rank ==
    /\ opt_pc = "returned"
    /\ ranker_view' = Some(GetReportsForJob(db, JobId))
    /\ opt_pc' = "ranked"
    /\ UNCHANGED << opt_frame, process_vars, opt_cores, param_sets, opt_bars, worker,
                    completed_runs, db >>

NextOpt ==
    \/ OptStart
    \/ OptStartFail
    \/ \E p \in Workers : WConnect(p)
    \/ \E p \in Workers : WBuildStrategy(p)
    \/ \E p \in Workers : WLoadAndRun(p)
    \/ \E p \in Workers : WSaveReport(p)
    \/ \E p \in Workers : WSaveTrades(p)
    \/ \E p \in Workers : WSaveEquity(p)
    \/ \E p \in Workers : WAbandon(p)
    \/ OptReturn
    \/ OptUnwind
    \/ Rank

SpecOpt == InitOpt /\ [][NextOpt]_vars

\* ------------------------------------------ generate_generic_parameter_sets
\* toml::Value numbers: the type tag and the number in units of 1/UNIT
TInt(n)   == [type |-> "Integer", num |-> n * UNIT]
TFloat(m) == [type |-> "Float",   num |-> m]

\* a TOML parameter: a scalar or a {start, end, step} table; step is an Option
Scalar(v)      == v
Range(s, e, st) == [type |-> "Table", start |-> s, end |-> e, step |-> st]
ParamSpecs   == {Scalar(TInt(7))} \cup
                {Range(TInt(s), TInt(e), None) : s \in {1, 2}, e \in {1, 2, 3}}

\* the parameters offered to a single expansion
RichParamSpecs ==
    {Scalar(TInt(7)), Scalar(TFloat(8))} \cup
    {Range(s, e, st) :
        s  \in {TInt(1), TInt(2), TFloat(10), TFloat(5)},
        e  \in {TInt(1), TInt(3), TFloat(25)},
        st \in {None, Some(TInt(1)), Some(TInt(2)), Some(TFloat(10)),
                Some(TFloat(5))}}

\* fast in {5, 10}, slow = {start 20, end 30, step 5}, confidence = 0.8
ExampleTable ==
    << Range(TInt(5), TInt(10), Some(TInt(5))),
       Range(TInt(20), TInt(30), Some(TInt(5))),
       Scalar(TFloat(8)) >>

\* table.get("step") ... .unwrap_or(1.0)
StepOf(value) == IF IsSome(value.step) THEN Unwrap(value.step).num ELSE UNIT

\* step == step.floor()
IsWhole(x) == x % UNIT = 0

\* the tag of the generated values
KeepsInteger(value) ==
    /\ value.start.type = "Integer"
    /\ value.end.type = "Integer"
    /\ IsWhole(StepOf(value))

\* variant: the end value is excluded
RECURSIVE RangeValuesExclusive(_, _, _, _)
RangeValuesExclusive(v, end_val, step, as_integer) ==
    IF v < end_val
    THEN << [type |-> IF as_integer THEN "Integer" ELSE "Float", num |-> v] >>
         \o RangeValuesExclusive(v + step, end_val, step, as_integer)
    ELSE << >>

\* while v <= end_val + 1e-8 { vals.push(..); v += step }
RECURSIVE RangeValues(_, _, _, _)
RangeValues(v, end_val, step, as_integer) ==
    IF v <= end_val
    THEN << [type |-> IF as_integer THEN "Integer" ELSE "Float", num |-> v] >>
         \o RangeValues(v + step, end_val, step, as_integer)
    ELSE << >>

\* expand_value
ExpandValue(value) ==
    IF value.type = "Table"
    THEN RangeValues(value.start.num, value.end.num, StepOf(value),
                     KeepsInteger(value))
    ELSE << value >>

InitGrid ==
    /\ BtIdle /\ OptIdle /\ RankIdle /\ StratIdle
    /\ \E n \in 0..MaxParams : params_table \in [1..n -> ParamSpecs]
    /\ value_lists = << >>
    /\ indices = << >>
    /\ final_tables = << >>
    /\ grid_pc = "expand"

\* keys, value_lists and indices are built from the parameter table
GridExpand ==
    /\ grid_pc = "expand"
    /\ value_lists' = [k \in DOMAIN params_table |-> ExpandValue(params_table[k])]
    /\ indices' = [k \in DOMAIN params_table |-> 0]
    /\ grid_pc' = "loop"
    /\ UNCHANGED << grid_frame, params_table, final_tables >>

\* value_lists[i][indices[i]] is out of bounds for some parameter
IndexOutOfBounds(lists, ind) ==
    \E k \in DOMAIN lists : ind[k] >= Len(lists[k])

\* the table built from the current indices
TableAt(lists, ind) == [k \in DOMAIN lists |-> lists[k][ind[k] + 1]]

\* the odometer increment, from position idx down; returns the indices and idx
RECURSIVE Advance(_, _, _)
Advance(lists, ind, idx) ==
    IF idx = 0 THEN [indices |-> ind, idx |-> 0]
    ELSE LET bumped == [ind EXCEPT ![idx] = @ + 1]
         IN  IF bumped[idx] < Len(lists[idx])
             THEN [indices |-> bumped, idx |-> idx - 1]
             ELSE Advance(lists, [bumped EXCEPT ![idx] = 0], idx - 1)

\* one iteration of the loop that completes
GridEmit ==
    /\ grid_pc = "loop"
    /\ Len(value_lists) > 0
    /\ ~IndexOutOfBounds(value_lists, indices)
    /\ LET r == Advance(value_lists, indices, Len(value_lists))
       IN  /\ final_tables' = Append(final_tables, TableAt(value_lists, indices))
           /\ indices' = r.indices
           /\ grid_pc' = IF r.idx = 0 /\ r.indices[1] = 0 THEN "done" ELSE "loop"
    /\ UNCHANGED << grid_frame, params_table, value_lists >>

\* one iteration of the loop that panics: an empty value list is indexed, or
\* indices[0] is read when there is no parameter
GridPanic ==
    /\ grid_pc = "loop"
    /\ \/ /\ IndexOutOfBounds(value_lists, indices)
          /\ UNCHANGED final_tables
       \/ /\ Len(value_lists) = 0
          /\ final_tables' = Append(final_tables, << >>)
    /\ grid_pc' = "panic"
    /\ UNCHANGED << grid_frame, params_table, value_lists, indices >>

NextGrid == GridExpand \/ GridEmit \/ GridPanic

SpecGrid == InitGrid /\ [][NextGrid]_vars

\* --------------------------------------- expand_value on one parameter table
InitExpand ==
    /\ BtIdle /\ OptIdle /\ RankIdle /\ StratIdle
    /\ \/ params_table \in [1..1 -> RichParamSpecs]
       \/ params_table = ExampleTable
    /\ value_lists = << >>
    /\ indices = << >>
    /\ final_tables = << >>
    /\ grid_pc = "expand"

SpecExpand == InitExpand /\ [][NextGrid]_vars

\* -------------------------------------------------- analyze_and_rank_results
\* f64 metrics of a PerformanceReport, in units of 1/SCALE
Metrics(pf, sharpe, maxdd, calmar) ==
    [profit_factor |-> pf, sharpe_ratio |-> sharpe,
     max_drawdown_percentage |-> maxdd, calmar_ratio |-> calmar]

\* metric profiles stored by finished runs; the third has profit_factor =
\* f64::INFINITY, the fourth a negative Sharpe and Calmar ratio
MetricChoices ==
    {Metrics(3 * SCALE, 2 * SCALE, 10 * SCALE, 2 * SCALE),
     Metrics(5 * SCALE, 4 * SCALE, 30 * SCALE, 3 * SCALE),
     Metrics(F64_INFINITY, 0, 0, 0),
     Metrics(SCALE \div 2, 0 - SCALE, 50 * SCALE, 0 - SCALE)}

JobIds      == {JobId, JobId + 1}
TradeCounts == {MINIMUM_TRADES_THRESHOLD - 1, MINIMUM_TRADES_THRESHOLD}

\* one row of performance_reports JOIN backtest_runs
ReportRows ==
    [job_id : JobIds, total_trades : TradeCounts, metrics : MetricChoices]

\* FullReport: run_id is the row's position in the table
FullReport(rows, k) ==
    [run_id |-> k, job_id |-> rows[k].job_id,
     total_trades |-> rows[k].total_trades, metrics |-> rows[k].metrics]

\* Db::get_reports_for_job: the rows of the job, in query order
RECURSIVE FetchReports(_, _, _)
FetchReports(rows, job_id, k) ==
    IF k > Len(rows) THEN << >>
    ELSE (IF rows[k].job_id = job_id THEN << FullReport(rows, k) >> ELSE << >>)
         \o FetchReports(rows, job_id, k + 1)

Min(a, b) == IF a <= b THEN a ELSE b

\* calculate_score
CalculateScore(m) ==
    LET capped_profit_factor == Min(m.profit_factor, 5 * SCALE)
        capped_sharpe        == Min(m.sharpe_ratio, 5 * SCALE)
        normalized_drawdown  == DDiv(m.max_drawdown_percentage, 100 * SCALE)
    IN  capped_profit_factor * 40 + capped_sharpe * 30
        + normalized_drawdown * (0 - 35) + m.calmar_ratio * 15

\* variant: a report needs more than the threshold
PassesFilterStrict(full_report) ==
    full_report.total_trades > MINIMUM_TRADES_THRESHOLD

\* total_trades < MINIMUM_TRADES_THRESHOLD is filtered out
PassesFilter(full_report) ==
    ~(full_report.total_trades < MINIMUM_TRADES_THRESHOLD)

\* filter_map: the surviving reports with their scores, in input order
RECURSIVE ScoreReports(_)
ScoreReports(reports) ==
    IF reports = << >> THEN << >>
    ELSE (IF PassesFilter(reports[1])
          THEN << [score |-> CalculateScore(reports[1].metrics),
                   report |-> reports[1]] >>
          ELSE << >>)
         \o ScoreReports(Tail(reports))

\* variant: an equal score goes in front
RECURSIVE InsertByScoreFront(_, _)
InsertByScoreFront(sorted, x) ==
    IF sorted = << >> THEN << x >>
    ELSE IF sorted[1].score > x.score
         THEN << sorted[1] >> \o InsertByScoreFront(Tail(sorted), x)
         ELSE << x >> \o sorted

\* position of x in a list sorted by b.score.partial_cmp(&a.score): after every
\* element whose score is not smaller
RECURSIVE InsertByScore(_, _)
InsertByScore(sorted, x) ==
    IF sorted = << >> THEN << x >>
    ELSE IF sorted[1].score >= x.score
         THEN << sorted[1] >> \o InsertByScore(Tail(sorted), x)
         ELSE << x >> \o sorted

\* Vec::sort_by (stable), descending by score
RECURSIVE SortByScore(_, _)
SortByScore(sorted, rest) ==
    IF rest = << >> THEN sorted
    ELSE SortByScore(InsertByScore(sorted, rest[1]), Tail(rest))

AnalyzeAndRank(rows, job_id) ==
    SortByScore(<< >>, ScoreReports(FetchReports(rows, job_id, 1)))

InitRank ==
    /\ BtIdle /\ OptIdle /\ GridIdle /\ StratIdle
    /\ \E n \in 0..MaxReports : report_rows \in [1..n -> ReportRows]
    /\ ranked_reports = None
    /\ rank_pc = "start"

\* analyze_and_rank_results(&db, job_id)
RankCall ==
    /\ rank_pc = "start"
    /\ ranked_reports' = Some(AnalyzeAndRank(report_rows, JobId))
    /\ rank_pc' = "done"
    /\ UNCHANGED << rank_frame, report_rows >>

NextRank == RankCall

SpecRank == InitRank /\ [][NextRank]_vars

\* ===================================================================== claims
Last(seq) == seq[Len(seq)]
Keys(pf)  == DOMAIN pf.open_positions

\* the stop condition of the claim, on the position open at the start of the bar
StopConditionHolds(b) ==
    /\ IsSome(b.position_to_check)
    /\ LET p == Unwrap(b.position_to_check)
       IN  \/ p.side = "Long"  /\ b.kline.low  <= p.sl_price
           \/ p.side = "Short" /\ b.kline.high >= p.sl_price

\* C1: on every processed bar whose low (long) or high (short) reaches the stop of
\* the position open at the start of the bar, a close order for the full quantity
\* and the opposite side is executed with sl_price as reference price, and no
\* position is open for the symbol when the bar ends.
C1_StopOutExecutedAtSlPrice ==
    IsSome(bar_log) =>
        LET b == Unwrap(bar_log)
        IN  StopConditionHolds(b) =>
                LET p == Unwrap(b.position_to_check)
                IN  /\ \E k \in 1..Len(b.executes) :
                           LET e == b.executes[k]
                           IN  /\ e.ok /\ e.kind = "close"
                               /\ e.order.symbol = symbol
                               /\ e.order.quantity = p.quantity
                               /\ e.order.side = Opposite(p.side)
                               /\ e.current_price = p.sl_price
                               /\ Unwrap(e.closed) = p
                    /\ symbol \notin Keys(portfolio)

C1_Witness ==
    /\ IsSome(bar_log)
    /\ StopConditionHolds(Unwrap(bar_log))
    /\ Unwrap(Unwrap(bar_log).position_to_check).side = "Long"
    /\ Unwrap(bar_log).kline.close > Unwrap(Unwrap(bar_log).position_to_check).sl_price
    /\ Len(Unwrap(bar_log).executes) = 1
    /\ Unwrap(bar_log).executes[1].kind = "close"

\* C2: on a bar where the stop-loss check fires, assess and evaluate are not
\* called, the stop-out is the only execute call, and no position is opened.
C2_StopOutBarRunsNothingElse ==
    IsSome(bar_log) =>
        LET b == Unwrap(bar_log)
        IN  StopConditionHolds(b) =>
                /\ ~b.assess_called
                /\ ~b.evaluate_called
                /\ Len(b.executes) = 1
                /\ b.executes[1].order.originating_signal = Close
                /\ b.executes[1].kind # "entry"
                /\ Keys(portfolio) = Keys(b.portfolio_before) \ {symbol}

C2_Witness ==
    /\ IsSome(bar_log)
    /\ StopConditionHolds(Unwrap(bar_log))
    /\ Unwrap(Unwrap(bar_log).position_to_check).side = "Short"
    /\ ~Unwrap(bar_log).assess_called
    /\ Len(Unwrap(bar_log).executes) = 1

\* C3: a strategy-driven order decided on bar i is sized on klines[i-1] and filled
\* at klines[i-1].close with timestamp klines[i-1].open_time; a position opened
\* this way has that entry_time and a trade closed this way that exit_time.
C3_StrategyOrdersUsePrevBar ==
    IsSome(bar_log) =>
        LET b == Unwrap(bar_log)
        IN  (b.assess_called /\ Len(b.executes) >= 1) =>
                LET e == b.executes[1]
                IN  /\ b.prev.open_time = OpenTime(b.index - 1)
                    /\ b.kline.open_time = OpenTime(b.index)
                    /\ e.current_price = b.prev.close
                    /\ e.current_time = b.prev.open_time
                    /\ (e.order.originating_signal.kind = "GoLong" =>
                            e.order.sl_price =
                                DMul(b.prev.close, DecOne - risk_settings.stop_loss_percent))
                    /\ (e.order.originating_signal.kind = "GoShort" =>
                            e.order.sl_price =
                                DMul(b.prev.close, DecOne + risk_settings.stop_loss_percent))
                    /\ (e.ok /\ e.kind = "entry" =>
                            /\ e.order.symbol \in Keys(portfolio)
                            /\ portfolio.open_positions[e.order.symbol].entry_time
                                   = b.prev.open_time)
                    /\ (e.ok /\ e.kind = "close" =>
                            /\ logger.trades # << >>
                            /\ Last(logger.trades).exit_time = b.prev.open_time)

C3_Witness ==
    /\ IsSome(bar_log)
    /\ Unwrap(bar_log).assess_called
    /\ Len(Unwrap(bar_log).executes) = 1
    /\ Unwrap(bar_log).executes[1].kind = "close"
    /\ Unwrap(bar_log).kline.close # Unwrap(bar_log).prev.close
    /\ logger.trades # << >>
    /\ Last(logger.trades).entry_time = OpenTime(Unwrap(bar_log).index - 2)

\* C4: at most one position is open; a successful entry fill adds exactly one key
\* to open_positions, a successful close removes exactly one key, and no other
\* step changes the key set.
C4_KeySetChangesOnlyByFills ==
    /\ Cardinality(Keys(portfolio)) <= 1
    /\ (bar_log = None => Keys(portfolio) = {})
    /\ IsSome(bar_log) =>
        LET b      == Unwrap(bar_log)
            before == Keys(b.portfolio_before)
            after  == Keys(portfolio)
        IN  IF b.executes = << >> THEN after = before
            ELSE LET e == b.executes[1]
                 IN  /\ Len(b.executes) = 1
                     /\ (e.ok /\ e.kind = "entry" =>
                            /\ e.order.symbol \notin before
                            /\ after = before \cup {e.order.symbol})
                     /\ (e.ok /\ e.kind = "close" =>
                            /\ e.order.symbol \in before
                            /\ after = before \ {e.order.symbol})
                     /\ (~e.ok => after = before)

C4_Witness ==
    /\ IsSome(bar_log)
    /\ Len(Unwrap(bar_log).executes) = 1
    /\ Unwrap(bar_log).executes[1].ok
    /\ Unwrap(bar_log).executes[1].kind = "close"
    /\ Keys(Unwrap(bar_log).portfolio_before) = {"BTCUSDT"}
    /\ Keys(portfolio) = {}
    /\ Len(logger.trades) = 1

\* C5: the equity curve has exactly one point per processed bar, in strictly
\* increasing timestamp order, and the point of bar i is (klines[i].open_time,
\* cash just before bar i is processed), also when trades are closed.
C5_EquityOnePointPerBar ==
    LET eq == logger.equity_points
    IN  /\ Len(eq) = i - KLINE_HISTORY_SIZE
        /\ \A k \in 1..Len(eq) : \A j \in 1..Len(eq) :
               k < j => eq[k].timestamp < eq[j].timestamp
        /\ IsSome(bar_log) =>
               LET b == Unwrap(bar_log)
                   k == b.index - KLINE_HISTORY_SIZE + 1
               IN  /\ k \in 1..Len(eq)
                   /\ eq[k] = EquityPoint(b.kline.open_time, b.portfolio_before.cash)

\* C6: an input of at most KLINE_HISTORY_SIZE bars returns the zero report, no
\* trades and an empty equity curve; for longer inputs nothing is assessed,
\* ordered or filled before the bar with index KLINE_HISTORY_SIZE is processed.
C6_NoTradingDuringWarmup ==
    /\ (pc = "done" /\ klines_len <= KLINE_HISTORY_SIZE) =>
           /\ report = Some(ZeroReport)
           /\ logger.trades = << >>
           /\ logger.equity_points = << >>
           /\ bar_log = None
    /\ IsSome(bar_log) =>
           /\ Unwrap(bar_log).index >= KLINE_HISTORY_SIZE
           /\ Unwrap(bar_log).index < klines_len
    /\ bar_log = None =>
           /\ portfolio = NewPortfolio(InitialCapital)
           /\ logger.trades = << >>

C6_Witness ==
    /\ pc = "done"
    /\ klines_len = KLINE_HISTORY_SIZE
    /\ report = Some(ZeroReport)

\* C7: when a backtest ends with no open position, (sum of trade.pnl) - (sum of
\* trade.fees) equals final cash - initial capital within 1e-6 of initial capital.
C7_TradesAccountForCash ==
    (pc = "done" /\ Keys(portfolio) = {}) =>
        Abs((SumPnl(logger.trades) - SumFees(logger.trades))
            - (portfolio.cash - portfolio.initial_capital))
          <= InitialCapital \div 1000000

\* C8: every recorded Trade has the side, quantity and entry_price of the closed
\* position, the closing fill price as exit_price and
\* pnl = (exit_price - entry_price) * quantity * (+1 long, -1 short).
C8_TradeDerivedFromPosition ==
    IsSome(bar_log) =>
        LET b == Unwrap(bar_log)
        IN  \A k \in 1..Len(b.executes) :
                LET e == b.executes[k]
                IN  (e.ok /\ IsSome(e.closed)) =>
                        LET pos == Unwrap(e.closed)
                            ex  == Unwrap(e.execution)
                            t   == Last(logger.trades)
                        IN  /\ logger.trades # << >>
                            /\ t.side = pos.side
                            /\ t.quantity = pos.quantity
                            /\ t.entry_price = pos.entry_price
                            /\ t.exit_price = ex.price
                            /\ t.pnl = DMul(t.exit_price - t.entry_price, t.quantity)
                                       * (IF pos.side = "Long" THEN 1 ELSE -1)

\* C9: every position held has quantity, entry_price and sl_price > 0 and every
\* recorded Trade has exit_time >= entry_time and quantity, entry_price and
\* exit_price > 0, for any risk settings and any cash value reached.
C9_PositionsAndTradesPositive ==
    /\ \A s \in Keys(portfolio) :
           LET p == portfolio.open_positions[s]
           IN  p.quantity > 0 /\ p.entry_price > 0 /\ p.sl_price > 0
    /\ \A k \in 1..Len(logger.trades) :
           LET t == logger.trades[k]
           IN  /\ t.exit_time >= t.entry_time
               /\ t.quantity > 0 /\ t.entry_price > 0 /\ t.exit_price > 0

\* C10: evaluate decides by case: Hold -> no order; Close with a position -> close
\* order (position's quantity, opposite side, position's leverage, sl_price 0);
\* Close without a position -> no order; entry signal with a position -> veto;
\* entry signal below minimum_confidence_threshold -> veto; any other entry
\* signal -> entry order.  The portfolio is unchanged by the call.
C10_EvaluateByCase ==
    IsSome(eval_call) =>
        LET c   == Unwrap(eval_call)
            sig == c.signal
            op  == c.open_position
            r   == c.result
        IN  /\ portfolio = c.portfolio_before
            /\ CASE sig.kind = "Hold" -> r.tag = "None" /\ r.order = None
                 [] sig.kind = "Close" /\ IsSome(op) ->
                        /\ r.tag = "Order"
                        /\ Unwrap(r.order).symbol = Unwrap(op).symbol
                        /\ Unwrap(r.order).quantity = Unwrap(op).quantity
                        /\ Unwrap(r.order).side = Opposite(Unwrap(op).side)
                        /\ Unwrap(r.order).leverage = Unwrap(op).leverage
                        /\ Unwrap(r.order).sl_price = 0
                 [] sig.kind = "Close" /\ IsNone(op) -> r.tag = "None" /\ r.order = None
                 [] sig.kind \in {"GoLong", "GoShort"} /\ IsSome(op) ->
                        r.tag = "Vetoed" /\ r.order = None
                 [] sig.kind \in {"GoLong", "GoShort"} /\ IsNone(op)
                        /\ sig.confidence < risk_settings.minimum_confidence_threshold ->
                        r.tag = "Vetoed" /\ r.order = None
                 [] OTHER ->
                        /\ r.tag = "Order"
                        /\ Unwrap(r.order).originating_signal = sig
                        /\ Unwrap(r.order).side =
                               (IF sig.kind = "GoLong" THEN "Long" ELSE "Short")
                        /\ Unwrap(r.order).leverage = risk_settings.leverage

C10_Witness ==
    /\ IsSome(eval_call)
    /\ Unwrap(eval_call).signal.kind = "GoLong"
    /\ IsSome(Unwrap(eval_call).open_position)
    /\ Unwrap(eval_call).result.tag = "Vetoed"

\* C11: for an entry signal that is not vetoed, evaluate returns an order with
\* side Long for GoLong and Short for GoShort, sl_price = close * (1 - stop) for
\* long and close * (1 + stop) for short, quantity = portfolio_value * risk *
\* confidence / stop / close and the configured leverage; portfolio 10000, risk
\* 0.01, confidence 1.0, stop 0.05, close 100 give quantity 20 and sl_price 95.
C11_EntrySizing ==
    IsSome(eval_call) =>
        LET c    == Unwrap(eval_call)
            sig  == c.signal
            r    == c.result
            cl   == c.current_kline.close
            stop == risk_settings.stop_loss_percent
            risk == risk_settings.risk_per_trade_percent
        IN  (sig.kind \in {"GoLong", "GoShort"} /\ r.tag # "Vetoed") =>
                /\ r.tag = "Order"
                /\ LET o == Unwrap(r.order)
                   IN  /\ (sig.kind = "GoLong" =>
                               /\ o.side = "Long"
                               /\ o.sl_price = DMul(cl, DecOne - stop))
                       /\ (sig.kind = "GoShort" =>
                               /\ o.side = "Short"
                               /\ o.sl_price = DMul(cl, DecOne + stop))
                       /\ o.quantity =
                              DDiv(DDiv(DMul(DMul(c.portfolio_value, risk),
                                             sig.confidence), stop), cl)
                       /\ o.leverage = risk_settings.leverage
                       /\ ((/\ c.portfolio_value = 10000 * SCALE
                            /\ risk = 1 /\ sig.confidence = SCALE
                            /\ stop = 5 /\ cl = 100 * SCALE) =>
                               /\ o.quantity = 20 * SCALE
                               /\ (sig.kind = "GoLong" => o.sl_price = 95 * SCALE)
                               /\ (sig.kind = "GoShort" => o.sl_price = 105 * SCALE))

C11_Witness ==
    /\ IsSome(eval_call)
    /\ Unwrap(eval_call).signal = GoLong(SCALE)
    /\ Unwrap(eval_call).portfolio_value = 10000 * SCALE
    /\ Unwrap(eval_call).current_kline.close = 100 * SCALE
    /\ risk_settings.risk_per_trade_percent = 1
    /\ Unwrap(eval_call).result.tag = "Order"
    /\ Unwrap(Unwrap(eval_call).result.order).quantity = 20 * SCALE
    /\ Unwrap(Unwrap(eval_call).result.order).sl_price = 95 * SCALE

\* C12: execute treats an order as an entry exactly when no position is open for
\* the order's symbol and as a close otherwise; the fill price is moved against
\* the trader (entry long price*(1+s), entry short price*(1-s), close of a long
\* price*(1-s), close of a short price*(1+s)) and the fee of every fill is
\* fill_price * quantity * taker_fee.
C12_EntryOrCloseAdverseFill ==
    IsSome(bar_log) =>
        LET b      == Unwrap(bar_log)
            before == b.portfolio_before
            s      == sim_settings.slippage_percent
        IN  \A k \in 1..Len(b.executes) :
                LET e == b.executes[k]
                IN  /\ (e.order.symbol \notin Keys(before) => e.kind \in {"entry", "error"})
                    /\ (e.order.symbol \in Keys(before) => e.kind = "close")
                    /\ (e.ok /\ e.kind = "entry" =>
                            LET ex == Unwrap(e.execution)
                            IN  /\ ex.price =
                                     (IF e.order.side = "Long"
                                      THEN DMul(e.current_price, DecOne + s)
                                      ELSE DMul(e.current_price, DecOne - s))
                                /\ ex.quantity = e.order.quantity
                                /\ ex.fee = DMul(DMul(ex.quantity, ex.price),
                                                 sim_settings.taker_fee))
                    /\ (e.ok /\ e.kind = "close" =>
                            LET ex  == Unwrap(e.execution)
                                pos == before.open_positions[e.order.symbol]
                            IN  /\ ex.price =
                                     (IF pos.side = "Long"
                                      THEN DMul(e.current_price, DecOne - s)
                                      ELSE DMul(e.current_price, DecOne + s))
                                /\ ex.quantity = pos.quantity
                                /\ ex.fee = DMul(DMul(ex.quantity, ex.price),
                                                 sim_settings.taker_fee))

C12_Witness ==
    /\ IsSome(bar_log)
    /\ sim_settings.slippage_percent = 1
    /\ sim_settings.taker_fee = 1
    /\ Len(Unwrap(bar_log).executes) = 1
    /\ Unwrap(bar_log).executes[1].ok
    /\ Unwrap(bar_log).executes[1].kind = "close"
    /\ Unwrap(Unwrap(bar_log).executes[1].closed).side = "Short"
    /\ Unwrap(Unwrap(bar_log).executes[1].execution).price
           > Unwrap(bar_log).executes[1].current_price
    /\ Unwrap(Unwrap(bar_log).executes[1].execution).fee > 0

\* the fee process_entry charges for an order at a reference price
EntryFeeOf(order, current_price, sim) ==
    LET price == IF order.side = "Long"
                 THEN DMul(current_price, DecOne + sim.slippage_percent)
                 ELSE DMul(current_price, DecOne - sim.slippage_percent)
    IN  DMul(DMul(order.quantity, price), sim.taker_fee)

\* C13: an entry is rejected exactly when cash < fee and a rejected entry leaves
\* cash and open_positions unchanged; an accepted entry decreases cash by exactly
\* the fee, inserts one position carrying the order's side, quantity, leverage,
\* sl_price and the timestamp passed by the driver, and changes nothing else.
C13_EntryRejectedIffCashBelowFee ==
    IsSome(bar_log) =>
        LET b      == Unwrap(bar_log)
            before == b.portfolio_before
        IN  \A k \in 1..Len(b.executes) :
                LET e   == b.executes[k]
                    fee == EntryFeeOf(e.order, e.current_price, sim_settings)
                IN  e.order.symbol \notin Keys(before) =>
                        /\ (~e.ok <=> before.cash < fee)
                        /\ (~e.ok => portfolio = before)
                        /\ (e.ok =>
                               /\ portfolio.cash = before.cash - fee
                               /\ portfolio.initial_capital = before.initial_capital
                               /\ Keys(portfolio) = Keys(before) \cup {e.order.symbol}
                               /\ \A s \in Keys(before) :
                                      portfolio.open_positions[s] = before.open_positions[s]
                               /\ LET p == portfolio.open_positions[e.order.symbol]
                                  IN  /\ p.symbol = e.order.symbol
                                      /\ p.side = e.order.side
                                      /\ p.quantity = e.order.quantity
                                      /\ p.leverage = e.order.leverage
                                      /\ p.sl_price = e.order.sl_price
                                      /\ p.entry_time = e.current_time
                                      /\ p.entry_price = Unwrap(e.execution).price)

\* a rejected entry
C13_Witness ==
    /\ IsSome(bar_log)
    /\ Len(Unwrap(bar_log).executes) = 1
    /\ ~Unwrap(bar_log).executes[1].ok
    /\ Unwrap(bar_log).portfolio_before.cash
           < EntryFeeOf(Unwrap(bar_log).executes[1].order,
                        Unwrap(bar_log).executes[1].current_price, sim_settings)
    /\ portfolio = Unwrap(bar_log).portfolio_before

\* C14: a close fill removes the position, computes pnl = (exec_price -
\* entry_price) * quantity * (+1 long, -1 short), increases cash by exactly
\* pnl - fee and returns the closing Execution with the removed Position; a long
\* of 20 entered at 100 with zero fees and slippage and closed at 95 takes cash
\* from 10000 to 9900.
C14_CloseFillSettlesPnl ==
    IsSome(bar_log) =>
        LET b      == Unwrap(bar_log)
            before == b.portfolio_before
        IN  \A k \in 1..Len(b.executes) :
                LET e == b.executes[k]
                IN  (e.ok /\ e.kind = "close") =>
                        LET pos == before.open_positions[e.order.symbol]
                            ex  == Unwrap(e.execution)
                            pnl == DMul(ex.price - pos.entry_price, pos.quantity)
                                   * (IF pos.side = "Long" THEN 1 ELSE -1)
                        IN  /\ Keys(portfolio) = Keys(before) \ {e.order.symbol}
                            /\ portfolio.cash = before.cash + pnl - ex.fee
                            /\ portfolio.initial_capital = before.initial_capital
                            /\ e.closed = Some(pos)
                            /\ ex.symbol = e.order.symbol
                            /\ ex.side = e.order.side
                            /\ ex.quantity = pos.quantity
                            /\ ex.source_request = e.order
                            /\ ((/\ pos.side = "Long"
                                 /\ pos.quantity = 20 * SCALE
                                 /\ pos.entry_price = 100 * SCALE
                                 /\ sim_settings.taker_fee = 0
                                 /\ sim_settings.slippage_percent = 0
                                 /\ e.current_price = 95 * SCALE
                                 /\ before.cash = 10000 * SCALE) =>
                                    portfolio.cash = 9900 * SCALE)

C14_Witness ==
    /\ IsSome(bar_log)
    /\ Len(Unwrap(bar_log).executes) = 1
    /\ Unwrap(bar_log).executes[1].ok
    /\ Unwrap(bar_log).executes[1].kind = "close"
    /\ Unwrap(Unwrap(bar_log).executes[1].closed).side = "Long"
    /\ Unwrap(Unwrap(bar_log).executes[1].closed).quantity = 20 * SCALE
    /\ Unwrap(Unwrap(bar_log).executes[1].closed).entry_price = 100 * SCALE
    /\ Unwrap(bar_log).executes[1].current_price = 95 * SCALE
    /\ sim_settings.taker_fee = 0
    /\ sim_settings.slippage_percent = 0
    /\ Unwrap(bar_log).portfolio_before.cash = 10000 * SCALE
    /\ portfolio.cash = 9900 * SCALE

\* C15: the trade list is in closing order: a closing fill appends its trade at
\* the end of the list, exit_time is non-decreasing along the list and each
\* trade's entry_time is not earlier than the previous trade's exit_time.
C15_TradesInClosingOrder ==
    LET ts == logger.trades
    IN  /\ \A k \in 2..Len(ts) :
               /\ ts[k - 1].exit_time <= ts[k].exit_time
               /\ ts[k].entry_time >= ts[k - 1].exit_time
        /\ IsSome(bar_log) =>
               \A k \in 1..Len(Unwrap(bar_log).executes) :
                   LET e == Unwrap(bar_log).executes[k]
                   IN  (e.ok /\ e.kind = "close") =>
                           /\ ts # << >>
                           /\ Last(ts).entry_time = Unwrap(e.closed).entry_time
                           /\ Last(ts).exit_time = e.current_time

C15_Witness ==
    /\ Len(logger.trades) = 2
    /\ logger.trades[1].exit_time < logger.trades[2].exit_time
    /\ logger.trades[2].entry_time >= logger.trades[1].exit_time
    /\ IsSome(bar_log)
    /\ Len(Unwrap(bar_log).executes) = 1
    /\ Unwrap(bar_log).executes[1].kind = "close"

\* the rows a stopped worker left in each table for its run
RunRowStored(p) ==
    /\ IsSome(worker[p].run_id)
    /\ \E r \in db.runs : r.run_id = Unwrap(worker[p].run_id)
ReportStored(p) ==
    IsSome(worker[p].run_id) /\ Unwrap(worker[p].run_id) \in db.reports
TradesStored(p) ==
    /\ IsSome(worker[p].run_id)
    /\ \/ Unwrap(worker[p].result).n_trades = 0
       \/ [run_id |-> Unwrap(worker[p].run_id),
           count  |-> Unwrap(worker[p].result).n_trades] \in db.trades
EquityStored(p) ==
    /\ IsSome(worker[p].run_id)
    /\ \/ Unwrap(worker[p].result).n_equity = 0
       \/ [run_id |-> Unwrap(worker[p].run_id),
           count  |-> Unwrap(worker[p].result).n_equity] \in db.equity
NothingStored(p) ==
    /\ IsNone(worker[p].run_id)
    /\ \A r \in db.runs : r.parameters = param_sets[p] =>
           \E q \in Workers : q # p /\ worker[q].run_id = Some(r.run_id)

\* C16: persisting one optimization run is atomic: once a worker has stopped,
\* either the run row, its report, all its trades and all its equity points are
\* stored or none of them is, and the ranker never sees a run whose report is
\* stored but whose trades or equity points are missing.
C16_RunPersistedAtomically ==
    /\ \A p \in Workers :
           Terminal(worker, p) =>
               \/ NothingStored(p)
               \/ (RunRowStored(p) /\ ReportStored(p) /\ TradesStored(p)
                   /\ EquityStored(p))
    /\ IsSome(ranker_view) =>
           \A r \in Unwrap(ranker_view) :
               \E p \in Workers :
                   /\ worker[p].run_id = Some(r.run_id)
                   /\ TradesStored(p) /\ EquityStored(p)

\* C17: a failure while running one parameter set (database error or a
\* parameter set the strategy constructor rejects) is isolated: every other
\* parameter set is still run, and run_optimization still returns the job id.
C17_WorkerFailureIsolated ==
    /\ opt_pc # "panicked"
    /\ \A p \in Workers : worker[p].pc # "abandoned"
    /\ opt_pc \in {"returned", "ranked"} =>
           \A p \in Workers : worker[p].pc \in {"saved", "skipped", "failed"}

\* C18: run_optimization returns the job id only after every parameter set has
\* been handled exactly once; the progress counter then equals the number of
\* parameter sets; each parameter set has at most one persisted run and every
\* such run carries the job id; ranking starts only after that and reads the
\* full set of results.
C18_ReturnsAfterAllHandled ==
    /\ opt_pc \in {"returned", "ranked"} =>
           /\ \A p \in Workers : Terminal(worker, p)
           /\ completed_runs = Len(param_sets)
    /\ completed_runs = Cardinality({p \in Workers :
                                        worker[p].pc \in {"saved", "skipped", "failed"}})
    /\ \A r \in db.runs :
           /\ r.job_id = JobId
           /\ Cardinality({p \in Workers : worker[p].run_id = Some(r.run_id)}) = 1
    /\ Cardinality(db.runs) = Cardinality({p \in Workers : IsSome(worker[p].run_id)})
    /\ IsSome(ranker_view) =>
           /\ opt_pc = "ranked"
           /\ \A p \in Workers : Terminal(worker, p)
           /\ Unwrap(ranker_view) = db.runs

C18_Witness ==
    /\ opt_pc = "ranked"
    /\ Len(param_sets) = 2
    /\ opt_cores = 2
    /\ completed_runs = 2
    /\ worker[1].pc = "saved"
    /\ worker[2].pc = "failed"
    /\ Cardinality(Unwrap(ranker_view)) = 1

\* C19: a worker whose bar slice has fewer than 100 bars skips the parameter
\* set: no backtest is run, no run, report, trade or equity row is persisted, and
\* the closure ends without an error so the remaining sets continue.
C19_TooFewBarsSkips ==
    opt_bars < MIN_KLINES =>
        /\ db = EmptyDb
        /\ \A p \in Workers :
               /\ worker[p].result = None
               /\ worker[p].run_id = None
               /\ worker[p].pc \notin {"ran", "report_saved", "trades_saved", "saved"}

C19_Witness ==
    /\ opt_bars = MIN_KLINES - 1
    /\ Len(param_sets) = 2
    /\ opt_pc = "returned"
    /\ \A p \in Workers : worker[p].pc = "skipped"
    /\ completed_runs = 2
    /\ db = EmptyDb

RECURSIVE ProductOfLens(_)
ProductOfLens(lists) ==
    IF lists = << >> THEN 1 ELSE Len(lists[1]) * ProductOfLens(Tail(lists))

\* every choice of one value per parameter
Combinations(lists) ==
    {t \in [DOMAIN lists -> UNION {{lists[k][j] : j \in 1..Len(lists[k])} :
                                       k \in DOMAIN lists}] :
        \A k \in DOMAIN lists : \E j \in 1..Len(lists[k]) : lists[k][j] = t[k]}

\* C20: grid expansion yields the full cartesian product: the number of
\* generated sets is the product of the sizes of the per-parameter value lists
\* and every combination appears exactly once, also for a single parameter and
\* for a grid with an empty range, where the number of sets is zero.
C20_GridIsCartesianProduct ==
    Len(value_lists) > 0 =>
        /\ grid_pc # "panic"
        /\ grid_pc = "done" =>
               /\ Len(final_tables) = ProductOfLens(value_lists)
               /\ \A t \in Combinations(value_lists) :
                      Cardinality({k \in 1..Len(final_tables) :
                                      final_tables[k] = t}) = 1

\* C21: a range {start, end, step} expands to start, start+step, ... up to the
\* last value <= end, a missing step counts as 1, a scalar expands to itself,
\* and the values are integers when start, end and step are integers and floats
\* when one of them is fractional; fast in {5,10}, slow = {20..30 step 5},
\* confidence 0.8 gives 6 sets with integer fast and slow and float confidence.
C21_RangeExpansion ==
    grid_pc # "expand" =>
        /\ \A k \in DOMAIN params_table :
               LET v == params_table[k]
                   l == value_lists[k]
               IN  IF v.type # "Table" THEN l = << v >>
                   ELSE LET st == IF IsSome(v.step) THEN Unwrap(v.step).num
                                  ELSE 1 * UNIT
                        IN  /\ \A j \in 1..Len(l) :
                                   /\ l[j].num = v.start.num + (j - 1) * st
                                   /\ l[j].num <= v.end.num
                            /\ v.start.num + Len(l) * st > v.end.num
                            /\ (/\ v.start.type = "Integer"
                                /\ v.end.type = "Integer"
                                /\ (IsNone(v.step) \/ Unwrap(v.step).type = "Integer"))
                                   => \A j \in 1..Len(l) : l[j].type = "Integer"
                            /\ (\/ v.start.num % UNIT # 0
                                \/ v.end.num % UNIT # 0
                                \/ st % UNIT # 0)
                                   => \A j \in 1..Len(l) : l[j].type = "Float"
        /\ (params_table = ExampleTable /\ grid_pc = "done") =>
               /\ Len(final_tables) = 6
               /\ \A n \in 1..Len(final_tables) :
                      /\ final_tables[n][1] \in {TInt(5), TInt(10)}
                      /\ final_tables[n][2] \in {TInt(20), TInt(25), TInt(30)}
                      /\ final_tables[n][3] = TFloat(8)
               /\ \A m, n \in 1..Len(final_tables) :
                      m # n => final_tables[m] # final_tables[n]

C21_Witness ==
    /\ params_table = ExampleTable
    /\ grid_pc = "done"
    /\ Len(final_tables) = 6
    /\ value_lists[2] = << TInt(20), TInt(25), TInt(30) >>

\* the run ids in a ranked list
RankedIds(rr) == {rr[k].report.run_id : k \in 1..Len(rr)}

\* C22: analyze_and_rank_results returns exactly the persisted reports of the
\* given job whose total_trades >= 30, each once and none from another job; a
\* job with no surviving report gives the empty list.
C22_RankerReturnsJobReports ==
    rank_pc = "done" =>
        LET rr   == Unwrap(ranked_reports)
            want == {k \in 1..Len(report_rows) :
                        /\ report_rows[k].job_id = JobId
                        /\ report_rows[k].total_trades >= 30}
        IN  /\ IsSome(ranked_reports)
            /\ RankedIds(rr) = want
            /\ Len(rr) = Cardinality(want)
            /\ \A k \in 1..Len(rr) :
                   /\ rr[k].report.job_id = JobId
                   /\ rr[k].report.total_trades = report_rows[rr[k].report.run_id].total_trades
                   /\ rr[k].report.metrics = report_rows[rr[k].report.run_id].metrics
            /\ (want = {} => rr = << >>)

C22_Witness ==
    /\ rank_pc = "done"
    /\ Len(report_rows) = 3
    /\ report_rows[1].job_id = JobId /\ report_rows[1].total_trades = 30
    /\ report_rows[2].job_id = JobId /\ report_rows[2].total_trades = 29
    /\ report_rows[3].job_id # JobId /\ report_rows[3].total_trades = 30
    /\ Len(Unwrap(ranked_reports)) = 1
    /\ Unwrap(ranked_reports)[1].report.run_id = 1

\* the score formula of the claim, on metrics in units of 1/SCALE
ClaimedScore(m) ==
    40 * Min(m.profit_factor, 5 * SCALE) + 30 * Min(m.sharpe_ratio, 5 * SCALE)
    - (35 * m.max_drawdown_percentage) \div 100 + 15 * m.calmar_ratio

\* the ordering part of the claim and the first example
RankedOrderAndFirstExample(rr) ==
    /\ \A k \in 1..Len(rr) : rr[k].score = ClaimedScore(rr[k].report.metrics)
    /\ \A j, k \in 1..Len(rr) :
           j < k =>
               /\ rr[j].score >= rr[k].score
               /\ (rr[j].score = rr[k].score =>
                       rr[j].report.run_id < rr[k].report.run_id)
    /\ \A k \in 1..Len(rr) :
           rr[k].report.metrics = Metrics(5 * SCALE, 4 * SCALE, 30 * SCALE, 3 * SCALE)
               => rr[k].score = 354 * SCALE + SCALE \div 2
    /\ \A j, k \in 1..Len(rr) :
           (/\ rr[j].report.metrics = Metrics(5 * SCALE, 4 * SCALE, 30 * SCALE, 3 * SCALE)
            /\ rr[k].report.metrics = Metrics(3 * SCALE, 2 * SCALE, 10 * SCALE, 2 * SCALE))
               => j < k

\* C23: the ranker's output is ordered by score = 40*min(pf,5) + 30*min(sharpe,5)
\* - 35*(maxdd/100) + 15*calmar, non-increasing, equal scores keep their input
\* order; (pf 5, sharpe 4, maxdd 30%, calmar 3) scores 354.5 and ranks before
\* (pf 3, sharpe 2, maxdd 10%, calmar 2), which scores 207.5.
C23_RankedByScore ==
    rank_pc = "done" =>
        LET rr == Unwrap(ranked_reports)
        IN  /\ RankedOrderAndFirstExample(rr)
            /\ \A k \in 1..Len(rr) :
                   rr[k].report.metrics
                       = Metrics(3 * SCALE, 2 * SCALE, 10 * SCALE, 2 * SCALE)
                       => rr[k].score = 207 * SCALE + SCALE \div 2

\* C23 (amended): as C23, with the second report scoring 206.5.
C23_RankedByScoreAmended ==
    rank_pc = "done" =>
        LET rr == Unwrap(ranked_reports)
        IN  /\ RankedOrderAndFirstExample(rr)
            /\ \A k \in 1..Len(rr) :
                   rr[k].report.metrics
                       = Metrics(3 * SCALE, 2 * SCALE, 10 * SCALE, 2 * SCALE)
                       => rr[k].score = 206 * SCALE + SCALE \div 2

\* both example reports ranked, together with a tie
C23_Witness ==
    /\ rank_pc = "done"
    /\ Len(Unwrap(ranked_reports)) = 3
    /\ Unwrap(ranked_reports)[1].score = 354 * SCALE + SCALE \div 2
    /\ Unwrap(ranked_reports)[2].score = 206 * SCALE + SCALE \div 2
    /\ Unwrap(ranked_reports)[3].score = Unwrap(ranked_reports)[2].score
    /\ Unwrap(ranked_reports)[1].report.run_id = 2
    /\ Unwrap(ranked_reports)[2].report.run_id = 1
    /\ Unwrap(ranked_reports)[3].report.run_id = 3

\* what run_single_backtest_and_save does with parameter set p when the
\* database answers every call: a function of the parameters and the bars
OutcomeOf(settings, n) ==
    IF ~ConstructorAccepts(settings) THEN "panicked"
    ELSE IF TooFewBars(n) THEN "skipped"
    ELSE "saved"

\* C24: a run is a function of its bars and parameters only: once
\* run_optimization is over, what was persisted for a parameter set whose
\* database calls all succeeded is fixed by that set's parameters and the
\* bars, whatever the pool size, the worker and the interleaving were
C24_ResultIndependentOfScheduling ==
    opt_pc \in {"returned", "ranked", "panicked"} =>
        \A p \in Workers :
            worker[p].pc # "failed" =>
                worker[p].pc = OutcomeOf(param_sets[p], opt_bars)

\* ------------------------------------- the live portfolio and its reconciler
\* orders the live engine hands to the executor
LiveOrders ==
    {OrderRequest("BTCUSDT", side, 2 * SCALE, 2, sl, sig) :
        side \in Sides, sl \in {0, 95 * SCALE}, sig \in {Close, GoLong(SCALE)}}

\* one entry of account_state.positions; leverage is the parsed string
ExchangePosition(sym, amt, price, lev) ==
    [symbol |-> sym, position_amt |-> amt, entry_price |-> price, leverage |-> lev]

\* answers of get_account_balance
AccountStates ==
    {[total_wallet_balance |-> b, positions |-> ps] :
        b \in {InitialCapital, 9000 * SCALE},
        ps \in {<< >>} \cup
               {<< ExchangePosition("BTCUSDT", amt, 100 * SCALE, lev) >> :
                    amt \in {0, 2 * SCALE, -(2 * SCALE)}, lev \in {None, Some(2)}}}

\* the loop over account_state.positions
RECURSIVE ReconciledPositions(_, _)
ReconciledPositions(positions, open_positions) ==
    IF positions = << >> THEN open_positions
    ELSE LET position == Head(positions)
         IN  ReconciledPositions(Tail(positions),
                 IF position.position_amt # DecZero
                 THEN MapInsert(open_positions, position.symbol,
                          Position(position.symbol,
                                   IF position.position_amt > DecZero
                                   THEN "Long" ELSE "Short",
                                   Abs(position.position_amt),
                                   position.entry_price,
                                   IF IsSome(position.leverage)
                                   THEN Unwrap(position.leverage) ELSE 1,
                                   0, 0))
                 ELSE open_positions)

live_frame == << symbol, risk_settings, sim_settings, klines_len, prev_kline,
                 logger, report, bar_log, eval_call, opt_vars, grid_vars,
                 rank_vars, strat_vars >>

InitLive ==
    /\ OptIdle /\ GridIdle /\ RankIdle /\ StratIdle
    /\ symbol = "BTCUSDT"
    /\ risk_settings = [risk_per_trade_percent |-> 1, stop_loss_percent |-> 5,
                        minimum_confidence_threshold |-> 0, leverage |-> 2]
    /\ sim_settings \in [taker_fee : TakerFees, slippage_percent : Slippages]
    /\ klines_len = 0
    /\ i = 0
    /\ prev_kline = Kline(OpenTime(KLINE_HISTORY_SIZE - 1),
                          100 * SCALE, 100 * SCALE, 100 * SCALE)
    /\ portfolio = NewPortfolio(InitialCapital)
    /\ logger = NewLogger(InitialCapital)
    /\ report = None
    /\ bar_log = None
    /\ eval_call = None
    /\ pc = "live"

\* Engine::run hands an order to executor.execute
LiveExecute ==
    /\ pc \in {"live", "execute", "reconcile"}
    /\ i < MaxLiveOps
    /\ \E order \in LiveOrders, price \in Prices :
        portfolio' = Execute(portfolio, order, price, OpenTime(i),
                             sim_settings).portfolio
    /\ pc' = "execute"
    /\ i' = i + 1
    /\ UNCHANGED live_frame

\* StateReconciler::reconcile on the executor's portfolio
Reconcile ==
    /\ pc \in {"live", "execute", "reconcile"}
    /\ i < MaxLiveOps
    /\ \/ UNCHANGED portfolio
       \/ \E account_state \in AccountStates :
            portfolio' = [portfolio EXCEPT
                !.cash = account_state.total_wallet_balance,
                !.open_positions =
                    ReconciledPositions(account_state.positions,
                                        [s \in {} |-> 0])]
    /\ pc' = "reconcile"
    /\ i' = i + 1
    /\ UNCHANGED live_frame

NextLive == LiveExecute \/ Reconcile

SpecLive == InitLive /\ [][NextLive]_vars

\* C25: cash and open_positions are changed only by a step of the executor's
\* execute, the reconciler included, and initial_capital never changes
C25_PortfolioWrittenOnlyByExecute ==
    [][/\ portfolio'.initial_capital = portfolio.initial_capital
       /\ (\/ portfolio'.cash # portfolio.cash
           \/ portfolio'.open_positions # portfolio.open_positions)
              => pc' = "execute"]_vars

\* ---------------------------------------------------------------- strategies
\* Decimal::to_f64: f64 values are carried in 1/FRAC of Decimal's unit, fine
\* enough for every average below to be exact
FRAC == 1024
ToF64(d) == d * FRAC

\* ta::indicators::ExponentialMovingAverage: None until the first input,
\* k = 2 / (period + 1)
EmaNext(ema, input, period) ==
    IF IsNone(ema) THEN input
    ELSE (2 * input + (period - 1) * Unwrap(ema)) \div (period + 1)

\* the indicator after the inputs were fed one by one
RECURSIVE EmaFeed(_, _, _)
EmaFeed(ema, inputs, period) ==
    IF inputs = << >> THEN ema
    ELSE EmaFeed(Some(EmaNext(ema, Head(inputs), period)), Tail(inputs), period)

Closes(ks) == [n \in 1..Len(ks) |-> ToF64(ks[n].close)]

\* ------------------------------------------------------- MACrossover::assess
MASettings ==
    {[m5_fast_period |-> 1, m5_slow_period |-> 3,
      h1_fast_period |-> 1, h1_slow_period |-> 2, confidence |-> SCALE]}

MACloses == {90 * SCALE, 100 * SCALE, 110 * SCALE}
MABar(idx, cl) == Kline(OpenTime(idx), cl, cl, cl)

\* slice lengths below, at and above the slow period
MAWindows == {2, 3, 4}

\* TimeframeIndicators::default()
NewMACrossover ==
    [fast_ema |-> None, slow_ema |-> None,
     last_fast_ema_val |-> 0, last_slow_ema_val |-> 0]

\* variant: the bullish test does not look at the previous values
IsBullishCrossNoMemory(current_fast, current_slow, last_fast, last_slow) ==
    current_fast > current_slow

\* fast EMA just crossed above the slow EMA
IsBullishCross(current_fast, current_slow, last_fast, last_slow) ==
    current_fast > current_slow /\ last_fast <= last_slow

\* fast EMA just crossed below the slow EMA
IsBearishCross(current_fast, current_slow, last_fast, last_slow) ==
    current_fast < current_slow /\ last_fast >= last_slow

\* MACrossover::assess: the signal returned and the state left behind
MAAssess(st, settings, ks) ==
    IF Len(ks) < settings.m5_slow_period
    THEN [signal |-> Hold, state |-> st]
    ELSE IF IsNone(st.fast_ema)
    THEN LET fast_ema == EmaFeed(None, Closes(ks), settings.m5_fast_period)
             slow_ema == EmaFeed(None, Closes(ks), settings.m5_slow_period)
         IN  [signal |-> Hold,
              state  |-> [fast_ema |-> Some(Unwrap(fast_ema)),
                          slow_ema |-> Some(Unwrap(slow_ema)),
                          last_fast_ema_val |-> Unwrap(fast_ema),
                          last_slow_ema_val |-> Unwrap(slow_ema)]]
    ELSE LET current_close    == ToF64(ks[Len(ks)].close)
             current_fast_ema == EmaNext(st.fast_ema, current_close,
                                         settings.m5_fast_period)
             current_slow_ema == EmaNext(st.slow_ema, current_close,
                                         settings.m5_slow_period)
             signal ==
                 IF IsBullishCross(current_fast_ema, current_slow_ema,
                                   st.last_fast_ema_val, st.last_slow_ema_val)
                 THEN GoLong(settings.confidence)
                 ELSE IF IsBearishCross(current_fast_ema, current_slow_ema,
                                        st.last_fast_ema_val, st.last_slow_ema_val)
                 THEN GoShort(settings.confidence)
                 ELSE Hold
         IN  [signal |-> signal,
              state  |-> [fast_ema |-> Some(current_fast_ema),
                          slow_ema |-> Some(current_slow_ema),
                          last_fast_ema_val |-> current_fast_ema,
                          last_slow_ema_val |-> current_slow_ema]]

InitMA ==
    /\ BtIdle /\ OptIdle /\ GridIdle /\ RankIdle
    /\ strat_settings \in MASettings
    /\ strat_state = NewMACrossover
    /\ \E w \in MAWindows :
        \E cs \in [1..w -> MACloses] : klines = [n \in 1..w |-> MABar(n, cs[n])]
    /\ assess_log = None
    /\ calls = 0
    /\ position_held = FALSE

\* the driver calls assess on the slice, then slides the slice by one bar
MAAssessCall ==
    /\ calls < MaxCalls
    /\ LET res == MAAssess(strat_state, strat_settings, klines)
       IN  /\ strat_state' = res.state
           /\ assess_log' = Some([klines |-> klines, before |-> strat_state,
                                  signal |-> res.signal,
                                  fed |-> IF calls = 0 THEN Closes(klines)
                                          ELSE Append(Unwrap(assess_log).fed,
                                                      ToF64(klines[Len(klines)].close))])
    /\ calls' = calls + 1
    /\ \E cl \in MACloses :
        klines' = Append(Tail(klines),
                         MABar(klines[Len(klines)].open_time \div 60 + 1, cl))
    /\ UNCHANGED << strat_frame, strat_settings, position_held >>

NextMA == MAAssessCall

SpecMA == InitMA /\ [][NextMA]_vars

\* the sequence without its last element
Front(seq) == SubSeq(seq, 1, Len(seq) - 1)

\* the EMA of the given period over a whole series of inputs
EmaOver(inputs, period) == Unwrap(EmaFeed(None, inputs, period))

\* C26: after the warm-up call assess returns GoLong{confidence} exactly when
\* the fast EMA is above the slow EMA and was not above it on the previous
\* call, GoShort{confidence} exactly when it is below and was not below, and
\* Hold otherwise; the warm-up call and calls on fewer bars than the slow
\* period return Hold
C26_CrossoverSignals ==
    IsSome(assess_log) =>
        LET log    == Unwrap(assess_log)
            fast   == strat_settings.m5_fast_period
            slow   == strat_settings.m5_slow_period
            now_f  == EmaOver(log.fed, fast)
            now_s  == EmaOver(log.fed, slow)
            prev_f == EmaOver(Front(log.fed), fast)
            prev_s == EmaOver(Front(log.fed), slow)
        IN  IF Len(log.klines) < slow \/ calls = 1
            THEN log.signal = Hold
            ELSE /\ log.signal = GoLong(strat_settings.confidence)
                        <=> (now_f > now_s /\ prev_f <= prev_s)
                 /\ log.signal = GoShort(strat_settings.confidence)
                        <=> (now_f < now_s /\ prev_f >= prev_s)
                 /\ log.signal \in {Hold, GoLong(strat_settings.confidence),
                                    GoShort(strat_settings.confidence)}

\* a bullish crossover was signalled after the warm-up call
C26_Witness ==
    /\ IsSome(assess_log)
    /\ calls >= 2
    /\ Unwrap(assess_log).signal = GoLong(strat_settings.confidence)

\* --------------------------------------------------------- SuperTrend::assess
\* f64 * f64 where the left factor is a setting carried at Decimal's scale
FMul(m, x) == (m * x) \div SCALE

\* Decimal::from_f64
FromF64(x) == x \div FRAC

STSettings ==
    {[period |-> 1, multiplier |-> SCALE, exit_multiplier |-> 25,
      volume_threshold |-> 5 * SCALE, confirmation_bars |-> cb,
      ema_confirmation_period |-> 3, confidence |-> SCALE] : cb \in {1, 2}}

STBar(t, hi, lo, cl, vol) ==
    [open_time |-> t, high |-> hi, low |-> lo, close |-> cl, volume |-> vol]

\* (high, low, close) of the bars offered: flat at 90, flat at 100, a fall
STShapes == {<< 90 * SCALE, 90 * SCALE, 90 * SCALE >>,
             << 100 * SCALE, 100 * SCALE, 100 * SCALE >>,
             << 100 * SCALE, 90 * SCALE, 90 * SCALE >>}
STVolumes == {0, 10 * SCALE}

\* the slice length: max(period, ema_confirmation_period)
STWindow == 3

\* StState::default()
DefaultStState ==
    [atr |-> 0, final_upper_band |-> 0, final_lower_band |-> 0,
     trend |-> "Sideways", confirmed_trend |-> "Sideways",
     confirmation_count |-> 0]

\* SuperTrend::new
NewSuperTrend == [states |-> << >>, last_signal_side |-> None]

\* ta::indicators::TrueRange: the indicator keeps the previous close itself
TrueRange(ks, n) ==
    LET high == ToF64(ks[n].high)
        low  == ToF64(ks[n].low)
    IN  IF n = 1 THEN high - low
        ELSE LET prev == ToF64(ks[n - 1].close)
             IN  Max(high - low, Max(Abs(high - prev), Abs(low - prev)))

\* one turn of the state calculation loop
STStep(ks, n, last_state, current_atr, settings) ==
    LET close == ToF64(ks[n].close)
        high  == ToF64(ks[n].high)
        low   == ToF64(ks[n].low)
        prev_close  == IF n > 1 THEN ToF64(ks[n - 1].close) ELSE close
        hl2         == (high + low) \div 2
        basic_upper == hl2 + FMul(settings.multiplier, current_atr)
        basic_lower == hl2 - FMul(settings.multiplier, current_atr)
        final_upper_band ==
            IF basic_upper < last_state.final_upper_band
               \/ prev_close > last_state.final_upper_band
            THEN basic_upper ELSE last_state.final_upper_band
        final_lower_band ==
            IF basic_lower > last_state.final_lower_band
               \/ prev_close < last_state.final_lower_band
            THEN basic_lower ELSE last_state.final_lower_band
        trend == IF close > final_upper_band THEN "Uptrend"
                 ELSE IF close < final_lower_band THEN "Downtrend"
                 ELSE last_state.trend
    IN  [atr |-> current_atr,
         final_upper_band |-> final_upper_band,
         final_lower_band |-> final_lower_band,
         trend |-> trend,
         confirmed_trend |-> IF trend = last_state.confirmed_trend
                             THEN last_state.confirmed_trend ELSE trend,
         confirmation_count |-> IF trend = last_state.confirmed_trend
                                THEN last_state.confirmation_count + 1 ELSE 1]

\* the state calculation loop from bar n on: self.states
RECURSIVE STStates(_, _, _, _, _)
STStates(ks, n, last_state, atr, settings) ==
    IF n > Len(ks) THEN << >>
    ELSE LET current_atr   == EmaNext(atr, TrueRange(ks, n), settings.period)
             current_state == STStep(ks, n, last_state, current_atr, settings)
         IN  << current_state >> \o
             STStates(ks, n + 1, current_state, Some(current_atr), settings)

\* EmaExt::ema(...).unwrap_or(0.0)
EmaExt(inputs, period) ==
    IF Len(inputs) < period THEN 0 ELSE Unwrap(EmaFeed(None, inputs, period))

\* the volume filter
VolumeTooLow(kline, settings) == kline.volume < settings.volume_threshold

\* hl2 -/+ exit_multiplier * ATR, in Decimal
ExitLower(kline, atr, settings) ==
    (kline.high + kline.low) \div 2 - DMul(settings.exit_multiplier, FromF64(atr))
ExitUpper(kline, atr, settings) ==
    (kline.high + kline.low) \div 2 + DMul(settings.exit_multiplier, FromF64(atr))

\* SuperTrend::assess: the signal returned and the state left behind
STAssess(st, settings, ks) ==
    LET required_bars == Max(settings.period, settings.ema_confirmation_period)
    IN
    IF Len(ks) < required_bars THEN [signal |-> Hold, state |-> st]
    ELSE
    LET states  == STStates(ks, 1, DefaultStState, None, settings)
        cleared == [st EXCEPT !.states = states]
    IN
    IF Len(states) < 2 THEN [signal |-> Hold, state |-> cleared]
    ELSE
    LET current_state == states[Len(states)]
        prev_state    == states[Len(states) - 1]
        current_kline == ks[Len(ks)]
        ema_val       == EmaExt(Closes(ks), settings.ema_confirmation_period)
        close_f64     == ToF64(current_kline.close)
    IN
    IF VolumeTooLow(current_kline, settings)
    THEN [signal |-> Hold, state |-> cleared]
    ELSE IF current_state.confirmation_count < settings.confirmation_bars
    THEN [signal |-> Hold, state |-> cleared]
    ELSE IF /\ prev_state.confirmed_trend # "Uptrend"
            /\ current_state.confirmed_trend = "Uptrend"
            /\ close_f64 > ema_val
    THEN [signal |-> GoLong(settings.confidence),
          state  |-> [cleared EXCEPT !.last_signal_side = Some("Long")]]
    ELSE IF /\ prev_state.confirmed_trend # "Downtrend"
            /\ current_state.confirmed_trend = "Downtrend"
            /\ close_f64 < ema_val
    THEN [signal |-> GoShort(settings.confidence),
          state  |-> [cleared EXCEPT !.last_signal_side = Some("Short")]]
    ELSE IF /\ st.last_signal_side = Some("Long")
            /\ current_kline.close < ExitLower(current_kline, current_state.atr,
                                               settings)
    THEN [signal |-> Close, state |-> [cleared EXCEPT !.last_signal_side = None]]
    ELSE IF /\ st.last_signal_side = Some("Short")
            /\ current_kline.close > ExitUpper(current_kline, current_state.atr,
                                               settings)
    THEN [signal |-> Close, state |-> [cleared EXCEPT !.last_signal_side = None]]
    ELSE [signal |-> Hold, state |-> cleared]

InitST ==
    /\ BtIdle /\ OptIdle /\ GridIdle /\ RankIdle
    /\ strat_settings \in STSettings
    /\ strat_state = NewSuperTrend
    /\ \E ss \in [1..STWindow -> STShapes], vol \in STVolumes :
        klines = [n \in 1..STWindow |->
                     STBar(OpenTime(n), ss[n][1], ss[n][2], ss[n][3],
                           IF n = STWindow THEN vol ELSE 10 * SCALE)]
    /\ assess_log = None
    /\ calls = 0
    /\ position_held = FALSE

\* the driver calls assess on the slice, then slides the slice by one bar
STAssessCall ==
    /\ calls < MaxCalls
    /\ LET res == STAssess(strat_state, strat_settings, klines)
       IN  /\ strat_state' = res.state
           /\ assess_log' = Some([klines |-> klines, before |-> strat_state,
                                  signal |-> res.signal])
    /\ calls' = calls + 1
    /\ \E shape \in STShapes, vol \in STVolumes :
        klines' = Append(Tail(klines),
                         STBar(klines[Len(klines)].open_time + 60,
                               shape[1], shape[2], shape[3], vol))
    /\ UNCHANGED << strat_frame, strat_settings, position_held >>

NextST == STAssessCall

SpecST == InitST /\ [][NextST]_vars

\* the trend has been dir on the last confirmation_bars bars of the slice and
\* was not dir on the bar before them
BecomesConfirmed(states, dir, confirmation_bars) ==
    LET n == Len(states)
    IN  /\ n > confirmation_bars
        /\ \A j \in (n - confirmation_bars + 1)..n : states[j].trend = dir
        /\ states[n - confirmation_bars].trend # dir

\* C27: on the bar at which an Up trend becomes confirmed (Up on
\* confirmation_bars consecutive bars after not being Up), with close above
\* the confirmation EMA and volume at or above the threshold, assess returns
\* GoLong; symmetrically GoShort for a Down trend; for every confirmation_bars
C27_EntryOnConfirmedTrend ==
    IsSome(assess_log) =>
        LET log    == Unwrap(assess_log)
            ks     == log.klines
            last   == ks[Len(ks)]
            states == STStates(ks, 1, DefaultStState, None, strat_settings)
            ema    == EmaExt(Closes(ks), strat_settings.ema_confirmation_period)
            liquid == last.volume >= strat_settings.volume_threshold
            cb     == strat_settings.confirmation_bars
        IN  /\ (BecomesConfirmed(states, "Uptrend", cb)
                    /\ ToF64(last.close) > ema /\ liquid)
               => log.signal = GoLong(strat_settings.confidence)
            /\ (BecomesConfirmed(states, "Downtrend", cb)
                    /\ ToF64(last.close) < ema /\ liquid)
               => log.signal = GoShort(strat_settings.confidence)

\* C28: with a long open, a bar closing below hl2 - exit_multiplier * ATR makes
\* assess return Close (symmetrically for a short and the upper band),
\* whatever the bar's volume and the confirmation count
C28_ExitIgnoresEntryFilters ==
    IsSome(assess_log) =>
        LET log    == Unwrap(assess_log)
            ks     == log.klines
            last   == ks[Len(ks)]
            states == STStates(ks, 1, DefaultStState, None, strat_settings)
            atr    == states[Len(states)].atr
        IN  /\ (log.before.last_signal_side = Some("Long")
                    /\ last.close < ExitLower(last, atr, strat_settings))
               => log.signal = Close
            /\ (log.before.last_signal_side = Some("Short")
                    /\ last.close > ExitUpper(last, atr, strat_settings))
               => log.signal = Close

\* ------------------------------------------------------ ProbReversion::assess
PRSettings ==
    {[bband_period |-> 20, bband_stddev |-> 2, adx_period |-> 14,
      adx_range_threshold |-> 25, rsi_period |-> 14, rsi_oversold |-> 30,
      rsi_smoothing |-> 5, confidence |-> SCALE]}

\* what assess computes from the slice before its logic flow: the last bar's
\* close and low and the current indicator values (whole f64 numbers)
Readings(cl, lo, avg, lower, adx, rsi, rsi_sma) ==
    [current_close |-> cl, current_low |-> lo, bb_average |-> avg,
     bb_lower |-> lower, current_adx |-> adx, current_rsi |-> rsi,
     current_rsi_sma |-> rsi_sma]

PRReadings ==
    {Readings(cl, lo, 95, 88, adx, rsi, sma) :
        cl \in {90, 100}, lo \in {85, 90}, adx \in {10, 30}, rsi \in {20, 50},
        sma \in {40, 45}}

\* ProbReversion::new
NewProbReversion ==
    [prev_rsi_sma |-> 0, pending_buy_signal_close |-> None, in_position |-> FALSE]

\* variant: an equal close confirms the setup
ConfirmsSetupOrEqual(current_close, setup_close) == current_close >= setup_close

\* the entry confirmation test
ConfirmsSetup(current_close, setup_close) == current_close > setup_close

\* the regime, location and momentum filters of a new setup
RegimeMet(st, settings, r)   == ~(r.current_adx >= settings.adx_range_threshold)
LocationMet(st, settings, r) == r.current_low <= r.bb_lower
MomentumMet(st, settings, r) ==
    r.current_rsi < settings.rsi_oversold /\ r.current_rsi_sma > st.prev_rsi_sma

\* step 3 of the logic flow: look for a new setup; st has no pending setup
PRNewSetup(st, settings, r) ==
    IF ~RegimeMet(st, settings, r)
    THEN [signal |-> Hold, state |-> [st EXCEPT !.prev_rsi_sma = r.current_rsi_sma]]
    ELSE [signal |-> Hold,
          state  |-> [st EXCEPT
              !.pending_buy_signal_close =
                  IF LocationMet(st, settings, r) /\ MomentumMet(st, settings, r)
                  THEN Some(r.current_close) ELSE None,
              !.prev_rsi_sma = r.current_rsi_sma]]

\* ProbReversion::assess after the indicator calculation
PRAssess(st, settings, r) ==
    IF st.in_position /\ r.current_close >= r.bb_average
    THEN [signal |-> Close,
          state  |-> [st EXCEPT !.in_position = FALSE,
                                !.pending_buy_signal_close = None]]
    ELSE IF IsSome(st.pending_buy_signal_close)
    THEN LET setup_close == Unwrap(st.pending_buy_signal_close)
             consumed    == [st EXCEPT !.pending_buy_signal_close = None]
         IN  IF ConfirmsSetup(r.current_close, setup_close)
             THEN [signal |-> GoLong(settings.confidence),
                   state  |-> [consumed EXCEPT !.in_position = TRUE]]
             ELSE PRNewSetup(consumed, settings, r)
    ELSE PRNewSetup(st, settings, r)

InitPR ==
    /\ BtIdle /\ OptIdle /\ GridIdle /\ RankIdle
    /\ strat_settings \in PRSettings
    /\ strat_state = NewProbReversion
    /\ \E r \in PRReadings : klines = << r >>
    /\ assess_log = None
    /\ calls = 0
    /\ position_held = FALSE

\* a bar of Backtester::run on which no stop is hit: assess, evaluate, execute.
\* An entry signal is vetoed when a position is open; otherwise the risk
\* manager may veto it or the executor reject it.
PRAssessBar ==
    /\ calls < MaxPRCalls
    /\ LET res == PRAssess(strat_state, strat_settings, klines[1])
       IN  /\ strat_state' = res.state
           /\ assess_log' = Some([klines |-> klines, before |-> strat_state,
                                  signal |-> res.signal,
                                  held_before |-> position_held,
                                  stopped_since |-> FALSE])
           /\ IF res.signal.kind = "Close" THEN position_held' = FALSE
              ELSE IF res.signal.kind = "GoLong" /\ ~position_held
              THEN position_held' \in BOOLEAN
              ELSE UNCHANGED position_held
    /\ calls' = calls + 1
    /\ \E r \in PRReadings : klines' = << r >>
    /\ UNCHANGED << strat_frame, strat_settings >>

\* a bar on which the open position's stop is hit: the position is closed and
\* assess is not called
PRStopOutBar ==
    /\ calls < MaxPRCalls
    /\ position_held
    /\ position_held' = FALSE
    /\ assess_log' = Some([Unwrap(assess_log) EXCEPT !.stopped_since = TRUE])
    /\ \E r \in PRReadings : klines' = << r >>
    /\ UNCHANGED << strat_frame, strat_settings, strat_state, calls >>

NextPR == PRAssessBar \/ PRStopOutBar

SpecPR == InitPR /\ [][NextPR]_vars

\* all three filters hold on the bar of the logged call
FiltersHold(log) ==
    /\ RegimeMet(log.before, strat_settings, log.klines[1])
    /\ LocationMet(log.before, strat_settings, log.klines[1])
    /\ MomentumMet(log.before, strat_settings, log.klines[1])

\* arming and survival: a setup pending after a call was armed by that call,
\* on a bar where all filters hold, and a quiet bar with all filters arms one
ArmedOnlyByFilters(log) ==
    /\ IsSome(strat_state.pending_buy_signal_close)
        => /\ FiltersHold(log)
           /\ strat_state.pending_buy_signal_close
                  = Some(log.klines[1].current_close)
           /\ log.signal = Hold
    /\ (FiltersHold(log) /\ log.signal = Hold)
        => IsSome(strat_state.pending_buy_signal_close)

\* C29: a setup is armed on a bar where the regime, location and momentum
\* filters all hold; it is consumed by the next assessed bar, which returns
\* GoLong if and only if close > setup_close; it never survives to a later
\* bar; GoShort is never returned
C29_SetupConsumedByNextBar ==
    IsSome(assess_log) =>
        LET log     == Unwrap(assess_log)
            pending == log.before.pending_buy_signal_close
            close   == log.klines[1].current_close
        IN  /\ log.signal.kind # "GoShort"
            /\ ArmedOnlyByFilters(log)
            /\ log.signal = GoLong(strat_settings.confidence)
                   <=> (IsSome(pending) /\ close > Unwrap(pending))

\* C29 as the code has it: the exit test comes first, so a bar that returns
\* Close (in_position and close >= middle band) discards the pending setup
\* without an entry; on every other bar GoLong is returned if and only if a
\* setup is pending and close > setup_close
C29_SetupConsumedUnlessExit ==
    IsSome(assess_log) =>
        LET log     == Unwrap(assess_log)
            pending == log.before.pending_buy_signal_close
            close   == log.klines[1].current_close
            exits   == log.before.in_position
                           /\ close >= log.klines[1].bb_average
        IN  /\ log.signal.kind # "GoShort"
            /\ ArmedOnlyByFilters(log)
            /\ exits => (log.signal = Close
                            /\ IsNone(strat_state.pending_buy_signal_close))
            /\ ~exits => (log.signal = GoLong(strat_settings.confidence)
                             <=> (IsSome(pending) /\ close > Unwrap(pending)))

\* a pending setup was confirmed by the next assessed bar
C29_Witness ==
    /\ IsSome(assess_log)
    /\ IsSome(Unwrap(assess_log).before.pending_buy_signal_close)
    /\ Unwrap(assess_log).signal = GoLong(strat_settings.confidence)

\* C30: Close is returned only on a bar where a position for the symbol is
\* held in the portfolio (and close >= middle band): not after a stop-out,
\* nor after the entry was vetoed or rejected
C30_CloseOnlyWhenHeld ==
    IsSome(assess_log) =>
        LET log == Unwrap(assess_log)
        IN  log.signal = Close =>
                /\ log.held_before
                /\ log.klines[1].current_close >= log.klines[1].bb_average

\* ------------------------------------- Backtester::run driving MACrossover
\* length of history_slice in the driven run (stands for KLINE_HISTORY_SIZE)
DrivenWindow == 3

\* &klines[(i - KLINE_HISTORY_SIZE)..i]
HistorySlice(history) ==
    SubSeq(history, Len(history) - DrivenWindow + 1, Len(history))

InitDriven ==
    /\ BtIdle /\ OptIdle /\ GridIdle /\ RankIdle
    /\ strat_settings \in MASettings
    /\ strat_state = NewMACrossover
    /\ \E cs \in [1..DrivenWindow -> MACloses] :
        klines = [n \in 1..DrivenWindow |-> MABar(n, cs[n])]
    /\ assess_log = None
    /\ calls = 0
    /\ position_held = FALSE

\* the loop moves on to the next bar
NextBarDriven ==
    \E cl \in MACloses : klines' = Append(klines, MABar(Len(klines) + 1, cl))

\* a bar on which no stop is hit: assess on the slice, evaluate, execute.  An
\* entry signal is vetoed while a position is open; otherwise the risk
\* manager may veto it or the executor reject it.
DrivenAssessBar ==
    /\ Len(klines) < DrivenWindow + MaxDrivenBars
    /\ LET res == MAAssess(strat_state, strat_settings, HistorySlice(klines))
       IN  /\ strat_state' = res.state
           /\ assess_log' = Some([klines |-> klines, before |-> strat_state,
                                  signal |-> res.signal])
           /\ IF res.signal.kind \in {"GoLong", "GoShort"} /\ ~position_held
              THEN position_held' \in BOOLEAN
              ELSE UNCHANGED position_held
    /\ calls' = calls + 1
    /\ NextBarDriven
    /\ UNCHANGED << strat_frame, strat_settings >>

\* a bar whose low (high) reaches the stop of the open position: the position
\* is closed and the loop continues without calling assess
DrivenStopOutBar ==
    /\ Len(klines) < DrivenWindow + MaxDrivenBars
    /\ position_held
    /\ position_held' = FALSE
    /\ NextBarDriven
    /\ UNCHANGED << strat_frame, strat_settings, strat_state, assess_log, calls >>

NextDriven == DrivenAssessBar \/ DrivenStopOutBar

SpecDriven == InitDriven /\ [][NextDriven]_vars

\* the signal of a fresh MACrossover that was fed the history bar by bar
StatelessSignal(history, settings) ==
    LET fed == Closes(history)
    IN  IF Len(fed) <= settings.m5_slow_period THEN Hold
        ELSE IF IsBullishCross(EmaOver(fed, settings.m5_fast_period),
                               EmaOver(fed, settings.m5_slow_period),
                               EmaOver(Front(fed), settings.m5_fast_period),
                               EmaOver(Front(fed), settings.m5_slow_period))
        THEN GoLong(settings.confidence)
        ELSE IF IsBearishCross(EmaOver(fed, settings.m5_fast_period),
                               EmaOver(fed, settings.m5_slow_period),
                               EmaOver(Front(fed), settings.m5_fast_period),
                               EmaOver(Front(fed), settings.m5_slow_period))
        THEN GoShort(settings.confidence)
        ELSE Hold

\* C31: in a run driven by Backtester::run, the signal of every assess call
\* after the warm-up call equals the signal computed statelessly from the
\* whole history up to the bar before the current one, also after stop-out
\* bars on which assess was not called
C31_SignalMatchesStateless ==
    (IsSome(assess_log) /\ calls >= 2) =>
        Unwrap(assess_log).signal
            = StatelessSignal(Unwrap(assess_log).klines, strat_settings)

\* ------------------------------------------ AnalyticsEngine::calculate, drawdown
\* Percentages are carried in whole percent and calmar_ratio in 1/SCALE; the
\* equity values below make every percentage quotient exact.
EquityValues == {5000 * SCALE, 10000 * SCALE, 20000 * SCALE}
TradePnls == {0 - 1000 * SCALE, 0, 1000 * SCALE}

\* the peak_equity left by the max-drawdown loop
RECURSIVE PeakFold(_, _)
PeakFold(points, peak_equity) ==
    IF points = << >> THEN peak_equity
    ELSE PeakFold(Tail(points), Max(peak_equity, points[1].value))

\* the drawdown-duration loop of AnalyticsEngine::calculate
RECURSIVE DurationFold(_, _, _, _, _)
DurationFold(points, in_drawdown, drawdown_start_time, max_dur, peak) ==
    IF points = << >>
    THEN max_dur
    ELSE LET point == points[1]
         IN  IF point.value >= peak
             THEN DurationFold(Tail(points), FALSE, drawdown_start_time,
                      IF in_drawdown
                      THEN Max(max_dur, point.timestamp - drawdown_start_time)
                      ELSE max_dur,
                      point.value)
             ELSE DurationFold(Tail(points), TRUE,
                      IF in_drawdown THEN drawdown_start_time ELSE point.timestamp,
                      max_dur, peak)

\* PerformanceReport::new (Default), drawdown fields
ZeroDrawdownReport ==
    [net_pnl_percentage |-> 0, max_drawdown_absolute |-> 0,
     max_drawdown_percentage |-> 0, calmar_ratio |-> 0,
     drawdown_duration_secs |-> 0]

\* AnalyticsEngine::calculate (net P&L percentage, drawdown, calmar, duration)
CalculateDrawdown(initial_capital, trades, equity_curve) ==
    IF trades = << >> THEN ZeroDrawdownReport
    ELSE LET net_pct == IF initial_capital > 0
                        THEN Sgn(SumPnl(trades))
                               * ((Abs(SumPnl(trades)) * 100) \div initial_capital)
                        ELSE 0
             max_drawdown == DrawdownFold(equity_curve, initial_capital, 0)
             peak_equity == PeakFold(equity_curve, initial_capital)
             dd_pct == IF peak_equity > 0
                       THEN (max_drawdown * 100) \div peak_equity
                       ELSE 0
         IN  [net_pnl_percentage      |-> net_pct,
              max_drawdown_absolute   |-> max_drawdown,
              max_drawdown_percentage |-> dd_pct,
              calmar_ratio            |-> IF dd_pct > 0
                                          THEN Sgn(net_pct)
                                                 * ((Abs(net_pct) * SCALE) \div dd_pct)
                                          ELSE 0,
              drawdown_duration_secs  |->
                  DurationFold(equity_curve, FALSE, 0, 0, initial_capital)]

\* the arguments of one calculate call: trades and an equity curve whose
\* points are one bar apart
InitAnalytics ==
    /\ OptIdle /\ GridIdle /\ RankIdle /\ StratIdle
    /\ symbol = "BTCUSDT"
    /\ risk_settings = [risk_per_trade_percent |-> 1, stop_loss_percent |-> 5,
                        minimum_confidence_threshold |-> 0, leverage |-> 2]
    /\ sim_settings = [taker_fee |-> 0, slippage_percent |-> 0]
    /\ klines_len = 0
    /\ i = KLINE_HISTORY_SIZE
    /\ prev_kline = Kline(OpenTime(KLINE_HISTORY_SIZE - 1),
                          100 * SCALE, 100 * SCALE, 100 * SCALE)
    /\ portfolio = NewPortfolio(InitialCapital)
    /\ \E n \in 0..MaxPoints, withTrade \in BOOLEAN, pnl \in TradePnls :
         \E vs \in [1..n -> EquityValues] :
            logger = [trades |-> IF withTrade THEN << [pnl |-> pnl] >> ELSE << >>,
                      equity_points |-> [k \in 1..n |-> EquityPoint(OpenTime(k), vs[k])],
                      initial_equity |-> InitialCapital]
    /\ report = None
    /\ bar_log = None
    /\ eval_call = None
    /\ pc = "analytics"

AnalyticsCalculate ==
    /\ pc = "analytics"
    /\ report' = Some(CalculateDrawdown(logger.initial_equity, logger.trades,
                                        logger.equity_points))
    /\ pc' = "done"
    /\ UNCHANGED << settings_vars, eval_call, i, prev_kline, portfolio, logger,
                    bar_log >>

NextAnalytics == AnalyticsCalculate

SpecAnalytics == InitAnalytics /\ [][NextAnalytics]_vars

\* max(initial capital, values of the first k points)
RunningPeak(k) ==
    PeakFold(SubSeq(logger.equity_points, 1, k), logger.initial_equity)

DrawdownAt(k) == RunningPeak(k) - logger.equity_points[k].value

\* C32: with trades, max_drawdown_absolute is the maximum over the equity
\* points of (running peak - value), max_drawdown_percentage is 100 times it
\* over the peak in force at a point where that maximum occurred, and
\* calmar_ratio is 0 when the drawdown is 0
C32_DrawdownAgainstItsPeak ==
    (pc = "done" /\ logger.trades # << >> /\ logger.equity_points # << >>) =>
        LET r == Unwrap(report)
            n == Len(logger.equity_points)
        IN  /\ \A k \in 1..n : r.max_drawdown_absolute >= DrawdownAt(k)
            /\ \E k \in 1..n :
                /\ r.max_drawdown_absolute = DrawdownAt(k)
                /\ r.max_drawdown_percentage
                     = (DrawdownAt(k) * 100) \div RunningPeak(k)
            /\ (r.max_drawdown_absolute = 0 => r.calmar_ratio = 0)

\* point k is below the peak of the points before it
BelowPeak(k) == logger.equity_points[k].value < RunningPeak(k - 1)

\* a..b is a maximal run of points below their prior peak; it lasts until the
\* point that recovers, or until the last point of the curve
SpanSecs(a, b) ==
    LET pts == logger.equity_points
    IN  (IF b < Len(pts) THEN pts[b + 1].timestamp ELSE pts[b].timestamp)
          - pts[a].timestamp

\* C33: drawdown_duration_secs is the length of the longest contiguous span
\* during which equity is below its prior peak, a span still open at the last
\* equity point included
C33_LongestDrawdownSpan ==
    (pc = "done" /\ logger.trades # << >>) =>
        LET n == Len(logger.equity_points)
            dur == Unwrap(report).drawdown_duration_secs
            Spans == {ab \in (1..n) \X (1..n) :
                        /\ ab[1] <= ab[2]
                        /\ \A k \in ab[1]..ab[2] : BelowPeak(k)}
        IN  /\ \A ab \in Spans : dur >= SpanSecs(ab[1], ab[2])
            /\ \/ \E ab \in Spans : dur = SpanSecs(ab[1], ab[2])
               \/ Spans = {} /\ dur = 0

\* ------------------------------- run_optimization called again in one process
\* the process calls run_optimization for another job after the last call ended
OptNextJob ==
    /\ opt_pc \in {"returned", "ranked", "failed", "pool_failed"}
    /\ jobs_started < MaxJobs
    /\ jobs_started' = jobs_started + 1
    /\ opt_cores' \in CoreCounts
    /\ \E n \in 1..MaxSets :
          /\ param_sets' \in [1..n -> ParamValues]
          /\ worker' = [p \in 1..n |-> NewWorker]
    /\ opt_pc' = "start"
    /\ completed_runs' = 0
    /\ ranker_view' = None
    /\ UNCHANGED << opt_frame, opt_bars, db, global_pool >>

\* build_global finds the global pool already initialised and returns Err,
\* which `?` hands to the caller with the context message
OptStartPoolTaken ==
    /\ opt_pc = "start"
    /\ global_pool # None
    /\ opt_pc' = "pool_failed"
    /\ UNCHANGED << opt_frame, process_vars, opt_cores, param_sets, opt_bars,
                    worker, completed_runs, db, ranker_view >>

NextJobs == NextOpt \/ OptNextJob \/ OptStartPoolTaken

SpecJobs == InitOpt /\ [][NextJobs]_vars

\* C34: no run_optimization call of a process fails because the worker pool
\* was already built: a later job also runs its parameter sets
C34_PoolInitIdempotent ==
    /\ opt_pc # "pool_failed"
    /\ (jobs_started >= 2 /\ opt_pc \in {"returned", "ranked"}) =>
           completed_runs = Len(param_sets)

\* C35: whatever the backtest's symbol, an executed entry order carries that
\* symbol, positions are stored under it only, and the order of an entry
\* signal is never executed as a close
C35_EntryCarriesBacktestSymbol ==
    IsSome(bar_log) =>
        LET b == Unwrap(bar_log)
        IN  /\ Keys(portfolio) \subseteq {symbol}
            /\ (b.assess_called /\ IsSome(b.signal)
                  /\ Unwrap(b.signal).kind \in {"GoLong", "GoShort"}) =>
                   \A k \in 1..Len(b.executes) :
                       /\ b.executes[k].order.symbol = symbol
                       /\ b.executes[k].kind # "close"

\* the bar just processed had no fill: Hold, no order, a veto, or an executor error
NoFillBar(b) ==
    /\ ~b.stop_triggered
    /\ \A k \in 1..Len(b.executes) : ~b.executes[k].ok

\* C36: a bar without a fill (Hold, veto, no order, executor error) leaves
\* cash and open_positions as they were, records no trade, and the loop goes
\* on with the next bar
C36_NoFillBarLeavesPortfolio ==
    [][(pc = "loop" /\ i' = i + 1 /\ NoFillBar(Unwrap(bar_log'))) =>
          /\ portfolio'.cash = portfolio.cash
          /\ portfolio'.open_positions = portfolio.open_positions
          /\ logger'.trades = logger.trades
          /\ pc' = "loop"]_vars

C36_Witness ==
    /\ IsSome(bar_log)
    /\ Len(Unwrap(bar_log).executes) = 1
    /\ ~Unwrap(bar_log).executes[1].ok
    /\ portfolio = Unwrap(bar_log).portfolio_before
    /\ i = Unwrap(bar_log).index + 1

\* C37: a position that was open when bar j started and is still open after
\* bar j was examined by the stop-loss check on bar j, so its stop lies
\* strictly inside the bar (long: sl_price < low, short: sl_price > high);
\* the bar on which a position is opened is not compared against its stop
C37_OpenPositionsClearOfBar ==
    IsSome(bar_log) =>
        LET b      == Unwrap(bar_log)
            before == b.portfolio_before.open_positions
            after  == portfolio.open_positions
        IN  /\ \A key \in DOMAIN before \cap DOMAIN after :
                  after[key] = before[key] =>
                      /\ b.position_to_check = Some(before[key])
                      /\ IF after[key].side = "Long"
                         THEN after[key].sl_price < b.kline.low
                         ELSE after[key].sl_price > b.kline.high
            /\ \A k \in 1..Len(b.executes) :
                  (b.executes[k].ok /\ b.executes[k].kind = "entry") =>
                      ~b.stop_triggered

\* ------------------------------------------ Bot::on_kline beside the reconciler
\* should_trigger_sl: the live bot compares the close of the kline
ShouldTriggerSl(open_position, current_price) ==
    IF open_position.side = "Long"
    THEN current_price <= open_position.sl_price
    ELSE current_price >= open_position.sl_price

\* locals of one on_kline call, and the portfolio entry each execute met
BotLocals(current, calc, checked, signal, order, seen, execs) ==
    Some([kline |-> current, calculation_kline |-> calc,
          position_to_check |-> checked, signal |-> signal, order |-> order,
          seen_by_evaluate |-> seen, executes |-> execs])

InitBot ==
    /\ OptIdle /\ GridIdle /\ RankIdle /\ StratIdle
    /\ symbol = "BTCUSDT"
    /\ risk_settings = [risk_per_trade_percent |-> 1, stop_loss_percent |-> 5,
                        minimum_confidence_threshold |-> 0, leverage |-> 2]
    /\ sim_settings = [taker_fee |-> 0, slippage_percent |-> 0]
    /\ klines_len = 0
    /\ i = 0
    /\ prev_kline = Kline(OpenTime(KLINE_HISTORY_SIZE - 1),
                          100 * SCALE, 100 * SCALE, 100 * SCALE)
    /\ portfolio = NewPortfolio(InitialCapital)
    /\ logger = NewLogger(InitialCapital)
    /\ report = None
    /\ bar_log = None
    /\ eval_call = None
    /\ pc = "bot_idle"

bot_frame == << symbol, risk_settings, sim_settings, klines_len, logger, report,
                eval_call, opt_vars, grid_vars, rank_vars, strat_vars >>

\* on_kline up to its next lock: the first lock section reads the position;
\* the stop test and assess run on the copies after the guard is dropped
BotOnKline ==
    /\ pc = "bot_idle"
    /\ i < MaxLiveOps
    /\ \E shape \in BarShapes, signal \in Signals :
        LET current_kline == Kline(OpenTime(KLINE_HISTORY_SIZE + i),
                                   shape.low, shape.high, shape.close)
            position_to_check == GetPosition(portfolio, symbol)
        IN  /\ IF /\ IsSome(position_to_check)
                  /\ ShouldTriggerSl(Unwrap(position_to_check), current_kline.close)
               THEN LET open_position == Unwrap(position_to_check)
                        close_order == OrderRequest(open_position.symbol,
                                           Opposite(open_position.side),
                                           open_position.quantity,
                                           open_position.leverage, DecZero, Close)
                    IN  /\ bar_log' = BotLocals(current_kline, prev_kline,
                                                position_to_check, None,
                                                Some(close_order), None, << >>)
                        /\ pc' = "bot_sl_execute"
               ELSE /\ bar_log' = BotLocals(current_kline, prev_kline,
                                            position_to_check, Some(signal),
                                            None, None, << >>)
                    /\ pc' = IF signal = Hold THEN "bot_idle" ELSE "bot_evaluate"
            /\ prev_kline' = current_kline
    /\ i' = i + 1
    /\ UNCHANGED << bot_frame, portfolio >>

\* second lock section of the stop-loss branch: executor.execute(close_order)
BotStopLossExecute ==
    /\ pc = "bot_sl_execute"
    /\ LET b == Unwrap(bar_log)
           order == Unwrap(b.order)
           res == Execute(portfolio, order, b.kline.close, b.kline.open_time,
                          sim_settings)
       IN  /\ portfolio' = res.portfolio
           /\ bar_log' = Some([b EXCEPT !.executes =
                  << [held |-> GetPosition(portfolio, symbol), kind |-> res.kind,
                      ok |-> res.ok, portfolio_after |-> res.portfolio] >>])
    /\ pc' = "bot_idle"
    /\ UNCHANGED << bot_frame, i, prev_kline >>

\* lock section of step 3 and risk_manager.evaluate on the copies
BotEvaluate ==
    /\ pc = "bot_evaluate"
    /\ LET b == Unwrap(bar_log)
           open_position == GetPosition(portfolio, symbol)
           order_request_result ==
               Evaluate(Unwrap(b.signal), symbol, portfolio.cash,
                        b.calculation_kline, open_position, risk_settings)
       IN  IF order_request_result.tag = "Order"
           THEN /\ bar_log' = Some([b EXCEPT
                       !.order = order_request_result.order,
                       !.seen_by_evaluate = Some(open_position)])
                /\ pc' = "bot_execute"
           ELSE /\ bar_log' = Some([b EXCEPT
                       !.seen_by_evaluate = Some(open_position)])
                /\ pc' = "bot_idle"
    /\ UNCHANGED << bot_frame, i, prev_kline, portfolio >>

\* lock section of step 4: executor.execute(order_request) at the kline's open
BotExecute ==
    /\ pc = "bot_execute"
    /\ \E open \in {p \in Prices : /\ Unwrap(bar_log).kline.low <= p
                              /\ p <= Unwrap(bar_log).kline.high} :
        LET b == Unwrap(bar_log)
            res == Execute(portfolio, Unwrap(b.order), open, b.kline.open_time,
                           sim_settings)
        IN  /\ portfolio' = res.portfolio
            /\ bar_log' = Some([b EXCEPT !.executes =
                   << [held |-> GetPosition(portfolio, symbol), kind |-> res.kind,
                       ok |-> res.ok, portfolio_after |-> res.portfolio] >>])
    /\ pc' = "bot_idle"
    /\ UNCHANGED << bot_frame, i, prev_kline >>

\* StateReconciler::reconcile, run by its own task between any two lock
\* sections of the bot
BotReconcile ==
    /\ i < MaxLiveOps
    /\ \/ UNCHANGED portfolio
       \/ \E account_state \in AccountStates :
            portfolio' = [portfolio EXCEPT
                !.cash = account_state.total_wallet_balance,
                !.open_positions =
                    ReconciledPositions(account_state.positions,
                                        [s \in {} |-> 0])]
    /\ i' = i + 1
    /\ UNCHANGED << bot_frame, prev_kline, bar_log, pc >>

NextBot ==
    BotOnKline \/ BotStopLossExecute \/ BotEvaluate \/ BotExecute \/ BotReconcile

SpecBot == InitBot /\ [][NextBot]_vars

\* C38: under every interleaving with the reconciler, the stop-loss close of
\* on_kline meets the position that triggered it (never an empty slot, where
\* it would be booked as an entry), and an approved entry order is never
\* executed as the close of a position that appeared after evaluate
C38_ReadAndExecuteAtomic ==
    (IsSome(bar_log) /\ Unwrap(bar_log).executes # << >>) =>
        LET b == Unwrap(bar_log)
            e == b.executes[1]
            order == Unwrap(b.order)
        IN  /\ order.originating_signal = Close /\ IsNone(b.signal) =>
                  /\ e.held = b.position_to_check
                  /\ e.kind # "entry"
            /\ order.originating_signal.kind \in {"GoLong", "GoShort"} =>
                  /\ e.held = Unwrap(b.seen_by_evaluate)
                  /\ e.kind # "close"

\* --------------------------------- the while loop of expand_value, step by step
\* range tables with any step: missing, zero, negative, positive
AnyStepRanges ==
    {Range(s, e, st) :
        s  \in {TInt(1), TInt(2), TFloat(5), TFloat(10)},
        e  \in {TInt(1), TInt(3), TFloat(25)},
        st \in {None, Some(TInt(0)), Some(TFloat(0)), Some(TInt(0 - 1)),
                Some(TFloat(0 - 5)), Some(TInt(1)), Some(TInt(2)),
                Some(TFloat(5))}}

\* the loop variable v after n pushes
LoopV(value, n) == value.start.num + n * StepOf(value)

InitRange ==
    /\ BtIdle /\ OptIdle /\ RankIdle /\ StratIdle
    /\ params_table \in [1..1 -> AnyStepRanges]
    /\ value_lists = << << >> >>
    /\ indices = << >>
    /\ final_tables = << >>
    /\ grid_pc = "range_loop"

\* one iteration of while v <= end_val + 1e-8: push and add the step.  The
\* list is followed up to MaxVals values.
RangePush ==
    /\ grid_pc = "range_loop"
    /\ LET value == params_table[1]
           v == LoopV(value, Len(value_lists[1]))
       IN  /\ v <= value.end.num
           /\ Len(value_lists[1]) < MaxVals
           /\ value_lists' =
                 << Append(value_lists[1],
                           [type |-> IF KeepsInteger(value) THEN "Integer" ELSE "Float",
                            num |-> v]) >>
    /\ UNCHANGED << grid_frame, params_table, indices, final_tables, grid_pc >>

\* the loop condition fails: expand_value returns vals and the combination
\* loop starts from indices of zeros
RangeReturn ==
    /\ grid_pc = "range_loop"
    /\ LoopV(params_table[1], Len(value_lists[1])) > params_table[1].end.num
    /\ indices' = << 0 >>
    /\ grid_pc' = "loop"
    /\ UNCHANGED << grid_frame, params_table, value_lists, final_tables >>

NextRange == RangePush \/ RangeReturn \/ GridEmit \/ GridPanic

\* the thread that runs generate_generic_parameter_sets keeps running
SpecRange == InitRange /\ [][NextRange]_vars /\ WF_vars(NextRange)

====
